---- MODULE Spec2Model ----
(***************************************************************************)
(* A model of xpost (internal/app/app.go and the CLI file main.go):        *)
(* credential resolution (newPoster), the media upload strategy chain      *)
(* (Poster.UploadMedia), post composition (Poster.CreateTweet) and the     *)
(* persistence of the configuration file (saveConfig, loadOrInitConfig).   *)
(*                                                                         *)
(* Go strings that the code trims or tests for blankness are sequences of  *)
(* one-character strings, so that strings.TrimSpace is computed; names,    *)
(* tags and error reasons that the code only copies are TLA+ strings.      *)
(***************************************************************************)
EXTENDS Integers, Sequences, FiniteSets, TLC

\* ------------------------------------------------------------------ bounds

\* media attachments of one request (the program allows maxMediaCount)
MaxMedia == 2
\* processes (server task, CLI command) saving the same configuration file
MaxWriters == 2
\* media references handed to one CreateTweet call
MaxRefs == 2
\* loadOrInitConfig calls made on one file
MaxLoads == 3
\* processes started one after the other on one file
MaxRuns == 2
\* calls of refreshPoster
MaxRefreshes == 2
\* keys of a generated payload map
MaxKeys == 2

\* concurrent invocations of the serverless Handler in one process
MaxRequests == 2

\* ------------------------------------------------------------- Go strings

SpaceChars == {" ", "\t", "\n"}

RECURSIVE TrimLeft(_)
TrimLeft(s) ==
    IF s # <<>> /\ Head(s) \in SpaceChars THEN TrimLeft(Tail(s)) ELSE s

RECURSIVE TrimRight(_)
TrimRight(s) ==
    IF s # <<>> /\ s[Len(s)] \in SpaceChars
    THEN TrimRight(SubSeq(s, 1, Len(s) - 1))
    ELSE s

\* strings.TrimSpace
TrimSpace(s) == TrimRight(TrimLeft(s))

\* strings.Join over reason tokens: the separator stands between the items
RECURSIVE Join(_, _)
Join(items, sep) ==
    IF items = <<>> THEN <<>>
    ELSE IF Len(items) = 1 THEN <<items[1]>>
    ELSE <<items[1], sep>> \o Join(Tail(items), sep)

\* ------------------------------------------------ upstream JSON payloads
\* A payload is a tagged tree: [t |-> "str", s |-> chars], [t |-> "num",
\* n |-> integer], [t |-> "null"], [t |-> "arr", a |-> sequence] or
\* [t |-> "map", keys |-> sequence of key names, m |-> key -> payload].

JStr(s) == [t |-> "str", s |-> s]
JNum(n) == [t |-> "num", n |-> n]
JNull == [t |-> "null"]
JArr(a) == [t |-> "arr", a |-> a]
JMap(keys, m) == [t |-> "map", keys |-> keys, m |-> m]

Digit(d) ==
    CASE d = 0 -> "0" [] d = 1 -> "1" [] d = 2 -> "2" [] d = 3 -> "3"
      [] d = 4 -> "4" [] d = 5 -> "5" [] d = 6 -> "6" [] d = 7 -> "7"
      [] d = 8 -> "8" [] d = 9 -> "9"

\* strconv.FormatFloat(f, 'f', 0, 64) of an integral value
RECURSIVE FormatInt(_)
FormatInt(n) ==
    IF n < 0 THEN <<"-">> \o FormatInt(0 - n)
    ELSE IF n < 10 THEN <<Digit(n)>>
    ELSE FormatInt(n \div 10) \o <<Digit(n % 10)>>

stringify(v) ==
    CASE v.t = "str" -> TrimSpace(v.s)
      [] v.t = "num" -> FormatInt(v.n)
      [] OTHER -> <<>>

\* strings.EqualFold on the key names the payloads use
Lower(k) ==
    CASE k = "ID" -> "id"
      [] k = "Media_Key" -> "media_key"
      [] k = "MEDIA_ID" -> "media_id"
      [] OTHER -> k

EqualFold(a, b) == Lower(a) = Lower(b)

SeqRange(s) == {s[i] : i \in 1..Len(s)}

\* The values one priority key can give at the current level of a map: the
\* loop over the map visits the keys in an order Go leaves unspecified, so
\* every key that folds to the wanted name and has a non-empty value may
\* be the one returned.
LocalMatches(v, key) ==
    {stringify(v.m[k]) : k \in {x \in SeqRange(v.keys) :
                                  EqualFold(x, key) /\ stringify(v.m[x]) # <<>>}}

\* a search that takes the first key of the map, in the order the map was
\* written, that folds to any of the wanted names
FirstLocalKeyPositional(v, keys) ==
    LET pos == {p \in 1..Len(v.keys) :
                  \E i \in 1..Len(keys) :
                     EqualFold(v.keys[p], keys[i]) /\ stringify(v.m[v.keys[p]]) # <<>>}
        first == CHOOSE p \in pos : \A q \in pos : p <= q
    IN IF pos = {} THEN 0
       ELSE CHOOSE i \in 1..Len(keys) : EqualFold(v.keys[first], keys[i])

\* The first priority key with a match at the current level, 0 if none.
FirstLocalKey(v, keys) ==
    LET hit == {i \in 1..Len(keys) : LocalMatches(v, keys[i]) # {}}
    IN IF hit = {} THEN 0 ELSE CHOOSE i \in hit : \A j \in hit : i <= j

\* a search that looks into the nested values before the current level
RECURSIVE findFirstByPriorityNestedFirst(_, _)
findFirstByPriorityNestedFirst(payload, keys) ==
    CASE payload.t = "map" ->
           LET nested == UNION {findFirstByPriorityNestedFirst(payload.m[k], keys) \ {<<>>} :
                                  k \in SeqRange(payload.keys)}
           IN IF nested # {} THEN nested
              ELSE IF FirstLocalKey(payload, keys) # 0
                   THEN LocalMatches(payload, keys[FirstLocalKey(payload, keys)])
                   ELSE {<<>>}
      [] payload.t = "arr" ->
           LET hit == {i \in 1..Len(payload.a) :
                         findFirstByPriorityNestedFirst(payload.a[i], keys) # {<<>>}}
           IN IF hit = {} THEN {<<>>}
              ELSE findFirstByPriorityNestedFirst(
                     payload.a[CHOOSE i \in hit : \A j \in hit : i <= j], keys)
      [] OTHER -> {<<>>}

\* findFirstByPriority: the set of strings the function may return
RECURSIVE findFirstByPriority(_, _)
findFirstByPriority(payload, keys) ==
    CASE payload.t = "map" ->
           IF FirstLocalKey(payload, keys) # 0
           THEN LocalMatches(payload, keys[FirstLocalKey(payload, keys)])
           ELSE LET nested == UNION {findFirstByPriority(payload.m[k], keys) \ {<<>>} :
                                       k \in SeqRange(payload.keys)}
                IN IF nested = {} THEN {<<>>} ELSE nested
      [] payload.t = "arr" ->
           LET hit == {i \in 1..Len(payload.a) :
                         findFirstByPriority(payload.a[i], keys) # {<<>>}}
           IN IF hit = {} THEN {<<>>}
              ELSE findFirstByPriority(
                     payload.a[CHOOSE i \in hit : \A j \in hit : i <= j], keys)
      [] OTHER -> {<<>>}

IdKeys == <<"media_id_string", "media_id", "id">>
KeyKeys == <<"media_key">>

MediaRef(id, key) == [ID |-> id, MediaKey |-> key]
EmptyRef == MediaRef(<<>>, <<>>)

\* extractMediaRef: the references the function may return for a payload
extractMediaRef(payload) ==
    {MediaRef(id, key) : id \in findFirstByPriority(payload, IdKeys),
                         key \in findFirstByPriority(payload, KeyKeys)}

NonEmptyRef(ref) == ref.ID # <<>> \/ ref.MediaKey # <<>>

\* ------------------------------------------------------------------ state

VARIABLES
    \* the request pipeline (handleCreateTweet / runTweetCommand)
    frontend,    \* who runs it: the local server, the Vercel handler, the CLI
    request,     \* the request as received: text, media items, malformed
    poster,      \* the Poster in use: [authMode]
    ctxDone,     \* the request context is cancelled or past its deadline
    pc,          \* position of the request
    slot,        \* index of the body tried by the current loop (1 or 2)
    text,        \* the text handed to CreateTweet
    pending,     \* media inputs not uploaded yet
    errs,        \* UploadMedia's errs
    initRef,     \* uploadMediaChunked's initRef
    appendErr,   \* uploadMediaChunked's appendErr
    uploaded,    \* the handler's uploaded references
    upRet,       \* what the last UploadMedia returned
    tweetRet,    \* what CreateTweet returned
    status,      \* HTTP status of the response, 0 while there is none; for
                 \* the CLI the exit code of the command, once pc is "done"
    response,    \* the body of the 200 response (the JSON the CLI prints)
    persisted,   \* what the token persistence after the post did
    uploads,     \* the UploadMedia calls that returned, in order
    \* history of the current UploadMedia / CreateTweet
    attempts,    \* the strategies attempted, with their outcome
    calls,       \* the upstream calls made, in order
    posts,       \* the bodies CreateTweet submitted, with their outcome
    \* credential resolution
    authCfg,     \* the XAuthConfig given to newPoster
    resolved,    \* what newPoster returned
    \* the configuration file
    files,       \* directory: file name -> inode, 0 when absent
    inodes,      \* inode -> content (a sequence of tokens)
    writers,     \* per process: position in saveConfig, its document, its fd
    lastRead,    \* what the last reader of the path has read
    renames,     \* the processes whose rename succeeded, in order
    loaded,      \* what loadOrInitConfig returned
    \* a process (server or CLI command) from start to serving
    appCfg,      \* the configuration in memory (a.cfg)
    env,         \* the environment variables of the process
    bootPc,      \* position of the process in its start-up
    loads,       \* what the loadOrInitConfig calls returned, in order
    \* the API token check
    headers,     \* the Authorization and X-API-Token headers of a request
    authStatus,  \* the middleware's answer: 0 none yet, 200 passed on
    \* the poster kept by the App, under its reader-writer lock
    mu,          \* a.mu: the writer holding it, the readers holding it
    stored,      \* a.poster and a.posterErr
    refresher,   \* the task in refreshPoster
    getter,      \* the task in getPoster
    resolutions, \* the pairs refreshPoster stored in full, oldest first
    \* a function called on its own
    fnArg,       \* the arguments of the call
    fnRet,       \* what it returned
    \* the serverless entrypoint (package handler)
    once,        \* the sync.Once: "new", "running" or "done"
    handle,      \* httpHandle and initErr
    reqs,        \* per request: its position in Handler and its status
    inits        \* the number of NewVercelHandler calls

pipeVars == <<frontend, request, poster, ctxDone, pc, slot, text, pending, errs,
              initRef, appendErr, uploaded, upRet, tweetRet, status, response,
              persisted, uploads, attempts, calls, posts>>
resolveVars == <<authCfg, resolved>>
fileVars == <<files, inodes, writers, lastRead, renames, loaded>>
bootVars == <<appCfg, env, bootPc, loads>>
authVars == <<headers, authStatus>>
lockVars == <<mu, stored, refresher, getter, resolutions>>
fnVars == <<fnArg, fnRet>>
vercelVars == <<once, handle, reqs, inits>>
vars == <<pipeVars, resolveVars, fileVars, bootVars, authVars, lockVars, fnVars,
          vercelVars>>

\* ------------------------------------------------------- upstream service

\* Responses the upstream API may give to an upload call.
Payloads == <<
    JMap(<<>>, <<>>),
    JMap(<<"data">>, [data |-> JMap(<<"media_key">>,
                                    [media_key |-> JStr(<<"k">>)])]),
    JMap(<<"data">>, [data |-> JMap(<<"media_id_string", "media_key">>,
                                    [media_id_string |-> JStr(<<"9">>),
                                     media_key |-> JStr(<<"3", "_", "9">>)])]) >>

\* The error an upstream call may return while the context is live.
Reasons == {"network error"}

CtxErr == "context canceled"

Outcome(ok, reason, p) == [ok |-> ok, reason |-> reason, p |-> p]

\* What a call of the transport library returns: with a dead context the
\* call fails with the context's error, as net/http requests do.
Upstream(done) ==
    IF done
    THEN {Outcome(FALSE, CtxErr, 0)}
    ELSE {Outcome(FALSE, r, 0) : r \in Reasons}
         \cup {Outcome(TRUE, "", i) : i \in 1..Len(Payloads)}

ModeOAuth1 == "oauth1"
ModeOAuth2 == "oauth2_user_token"

\* p.client != nil && p.client.Auth != nil
ClientAuth(p) == ~p.nil /\ p.client.Auth

NoRet == [done |-> FALSE, ok |-> FALSE, ref |-> EmptyRef, msg |-> <<>>]

\* --------------------------------------------------- Poster.UploadMedia

NoIdentifier == "upload returned no media identifier"
NoInitID == "initialize_upload did not return media id"
V1NoID == "v1 media upload returned no media id"
V1Status == "v1 media upload failed: status"
UploadFailedPrefix == "media upload failed: "

\* the field the attemptBodies / appendBodies entry sends the payload under
BodyField(k) == IF k = 1 THEN "media" ELSE "media_data"

SimpleStrategy(k) == IF k = 1 THEN "simple:media" ELSE "simple:media_data"

\* the strategies in the order UploadMedia is written
StrategyOrder == <<"simple:media", "simple:media_data", "chunked", "v1">>

Attempt(strategy, ok, ref, reason) ==
    [strategy |-> strategy, ok |-> ok, ref |-> ref, reason |-> reason]

Call(op, field, strategy) ==
    [op |-> op, field |-> field, strategy |-> strategy, ctxDone |-> ctxDone]

\* UploadMedia's locals are fresh on entry, which is the first pass of the
\* loop over attemptBodies.
AtEntry == pc = "simple" /\ slot = 1
Local(x) == IF AtEntry THEN <<>> ELSE x

\* mutant of AfterSimple: the loop leaves after its first body
AfterSimpleSkipsSecondBody(k) == "chunk_init"

\* the loop over attemptBodies: the next body, then the chunked upload
AfterSimple(k) == IF k < 2 THEN "simple" ELSE "chunk_init"

\* a loop that returns whatever reference the response gave
SimpleAcceptsAny(ref) == TRUE

\* the test that ends the upload with the reference of a simple upload
SimpleAccepts(ref) == ref.ID # <<>> \/ ref.MediaKey # <<>>

\* mutant of ErrsAfterNoIdentifier: the soft failure is not recorded
ErrsWithoutNoIdentifier(es) == es

\* errs after a simple upload that answered without an identifier
ErrsAfterNoIdentifier(es) == Append(es, NoIdentifier)

\* the legacy v1 fallback without its guard
TriesV1Always(p) == TRUE

\* the guard of the legacy v1 fallback
TriesV1(p) == ClientAuth(p)

\* the error UploadMedia returns when every strategy failed
UploadError(es) == <<UploadFailedPrefix>> \o Join(es, " | ")

\* the status the frontend gives for an HTTP status: the handler answers
\* with it, the command exits with 0 or 1
Answer(code) == IF frontend = "cli" THEN (IF code = 200 THEN 0 ELSE 1) ELSE code

\* one UploadMedia call of the handler's loop that returned: the position
\* of its input in the request, and what it returned
Upload(input, ok, ref) == [input |-> input, ok |-> ok, ref |-> ref]

\* The pipeline variables an upload step decides.
PipeStep(pc2, slot2, errs2, attempts2, upRet2, uploaded2, pending2, status2) ==
    /\ pc' = pc2
    /\ slot' = slot2
    /\ errs' = errs2
    /\ attempts' = attempts2
    /\ upRet' = upRet2
    /\ uploaded' = uploaded2
    /\ pending' = pending2
    /\ status' = status2

\* UploadMedia returns (ref, nil); the caller's loop appends the reference
\* and goes on to the next input or to CreateTweet.
UploadReturns(ref, att) ==
    /\ uploads' = Append(uploads, Upload(Len(uploaded) + 1, TRUE, ref))
    /\ PipeStep(IF pending > 1 THEN "simple" ELSE "tweet", 1, Local(errs),
                Append(Local(attempts), att),
                [done |-> TRUE, ok |-> TRUE, ref |-> ref, msg |-> <<>>],
                Append(uploaded, ref), pending - 1, status)

\* a handler that drops the input whose upload failed and goes on
UploadFailsSkipsInput(es, atts) ==
    /\ uploads' = Append(uploads, Upload(Len(uploads) + 1, FALSE, EmptyRef))
    /\ PipeStep(IF pending > 1 THEN "simple" ELSE "tweet", 1, es, atts,
                [done |-> TRUE, ok |-> FALSE, ref |-> EmptyRef, msg |-> UploadError(es)],
                uploaded, pending - 1, status)

\* UploadMedia returns the aggregated error; the handler answers 502.
UploadFails(es, atts) ==
    /\ uploads' = Append(uploads, Upload(Len(uploaded) + 1, FALSE, EmptyRef))
    /\ PipeStep("done", 1, es, atts,
                [done |-> TRUE, ok |-> FALSE, ref |-> EmptyRef, msg |-> UploadError(es)],
                uploaded, pending, Answer(502))

\* a strategy failed and the chain goes on at position pc2
ChainGoesOn(pc2, slot2, es, atts) ==
    /\ uploads' = uploads
    /\ PipeStep(pc2, slot2, es, atts, NoRet, uploaded, pending, status)

SimpleFailed(es, att) ==
    ChainGoesOn(AfterSimple(slot), IF slot < 2 THEN slot + 1 ELSE 1,
                es, Append(Local(attempts), att))

\* one pass of the loop over attemptBodies (p.client.Media.Upload)
UploadSimple ==
    /\ pc = "simple"
    /\ pending > 0
    /\ calls' = Append(Local(calls),
                       Call("Media.Upload", BodyField(slot), SimpleStrategy(slot)))
    /\ \E o \in Upstream(ctxDone) :
         IF ~o.ok
         THEN SimpleFailed(Append(Local(errs), o.reason),
                           Attempt(SimpleStrategy(slot), FALSE, EmptyRef, o.reason))
         ELSE \E ref \in extractMediaRef(Payloads[o.p]) :
                IF SimpleAccepts(ref)
                THEN UploadReturns(ref, Attempt(SimpleStrategy(slot), TRUE, ref, ""))
                ELSE SimpleFailed(ErrsAfterNoIdentifier(Local(errs)),
                                  Attempt(SimpleStrategy(slot), FALSE, ref, NoIdentifier))
    /\ UNCHANGED <<frontend, request, response, persisted,
                   poster, ctxDone, text, initRef, appendErr, tweetRet, posts,
                   resolveVars, fileVars,
                   bootVars, authVars, lockVars, fnVars, vercelVars>>

\* uploadMediaChunked returned an error: UploadMedia records it and goes on
\* to the legacy upload, or returns the aggregated error
ChunkedFailed(reason) ==
    LET es == Append(errs, reason)
        atts == Append(attempts, Attempt("chunked", FALSE, EmptyRef, reason))
    IN IF TriesV1(poster)
       THEN ChainGoesOn("v1", 1, es, atts)
       ELSE UploadFails(es, atts)

\* uploadMediaChunked: p.client.Media.InitializeUpload
ChunkedInitialize ==
    /\ pc = "chunk_init"
    /\ calls' = Append(calls, Call("Media.InitializeUpload", "", "chunked"))
    /\ \E o \in Upstream(ctxDone) :
         IF ~o.ok
         THEN ChunkedFailed(o.reason) /\ initRef' = initRef
         ELSE \E ref \in extractMediaRef(Payloads[o.p]) :
                IF ref.ID = <<>>
                THEN ChunkedFailed(NoInitID) /\ initRef' = initRef
                ELSE /\ ChainGoesOn("chunk_append", 1, errs, attempts)
                     /\ initRef' = ref
    /\ appendErr' = ""
    /\ UNCHANGED <<frontend, request, response, persisted,
                   poster, ctxDone, text, tweetRet, posts, resolveVars, fileVars,
                   bootVars, authVars, lockVars, fnVars, vercelVars>>

\* an append loop that goes on to finalize whatever AppendUpload returned
AppendNextIgnoresError(ok, k) == "chunk_final"

\* where uploadMediaChunked goes after AppendUpload returned for body k of
\* appendBodies: out of the loop on success, to the next body on failure,
\* and after the last body to the return of appendErr
AppendNext(ok, k) ==
    IF ok THEN "chunk_final" ELSE IF k < 2 THEN "chunk_append" ELSE "return"

\* uploadMediaChunked: one pass of the loop over appendBodies
ChunkedAppend ==
    /\ pc = "chunk_append"
    /\ calls' = Append(calls, Call("Media.AppendUpload", BodyField(slot), "chunked"))
    /\ \E o \in Upstream(ctxDone) :
         /\ appendErr' = o.reason
         /\ LET next == AppendNext(o.ok, slot)
            IN IF next = "chunk_final"
               THEN ChainGoesOn("chunk_final", 1, errs, attempts)
               ELSE IF next = "chunk_append"
                    THEN ChainGoesOn("chunk_append", slot + 1, errs, attempts)
                    ELSE ChunkedFailed(o.reason)
    /\ UNCHANGED <<frontend, request, response, persisted,
                   poster, ctxDone, text, initRef, tweetRet, posts,
                   resolveVars, fileVars,
                   bootVars, authVars, lockVars, fnVars, vercelVars>>

\* the reference uploadMediaChunked returns after FinalizeUpload
FinalRef(finalRef, init) ==
    MediaRef(IF finalRef.ID = <<>> THEN init.ID ELSE finalRef.ID,
             IF finalRef.MediaKey = <<>> THEN init.MediaKey ELSE finalRef.MediaKey)

\* uploadMediaChunked: p.client.Media.FinalizeUpload
ChunkedFinalize ==
    /\ pc = "chunk_final"
    /\ calls' = Append(calls, Call("Media.FinalizeUpload", "", "chunked"))
    /\ \E o \in Upstream(ctxDone) :
         IF ~o.ok
         THEN ChunkedFailed(o.reason)
         ELSE \E ref \in extractMediaRef(Payloads[o.p]) :
                UploadReturns(FinalRef(ref, initRef),
                              Attempt("chunked", TRUE, FinalRef(ref, initRef), ""))
    /\ UNCHANGED <<frontend, request, response, persisted,
                   poster, ctxDone, text, initRef, appendErr, tweetRet, posts,
                   resolveVars, fileVars,
                   bootVars, authVars, lockVars, fnVars, vercelVars>>

\* What the POST to the legacy endpoint gives: a transport error, a status
\* outside 2xx, or a decoded body.
V1Upstream(done) ==
    IF done THEN Upstream(done)
    ELSE Upstream(done) \cup {Outcome(FALSE, V1Status, 0)}

\* uploadMediaV1, called only under the guard TriesV1
UploadV1 ==
    /\ pc = "v1"
    /\ calls' = Append(calls, Call("POST upload.json", "media", "v1"))
    /\ \E o \in V1Upstream(ctxDone) :
         IF ~o.ok
         THEN UploadFails(Append(errs, o.reason),
                          Append(attempts, Attempt("v1", FALSE, EmptyRef, o.reason)))
         ELSE \E ref \in extractMediaRef(Payloads[o.p]) :
                IF ref.ID = <<>>
                THEN UploadFails(Append(errs, V1NoID),
                                 Append(attempts, Attempt("v1", FALSE, EmptyRef, V1NoID)))
                ELSE UploadReturns(ref, Attempt("v1", TRUE, ref, ""))
    /\ UNCHANGED <<frontend, request, response, persisted,
                   poster, ctxDone, text, initRef, appendErr, tweetRet, posts,
                   resolveVars, fileVars,
                   bootVars, authVars, lockVars, fnVars, vercelVars>>

\* ---------------------------------------------------- Poster.CreateTweet

RECURSIVE mediaIDs(_)
mediaIDs(items) ==
    IF items = <<>> THEN <<>>
    ELSE IF TrimSpace(Head(items).ID) # <<>>
         THEN <<TrimSpace(Head(items).ID)>> \o mediaIDs(Tail(items))
         ELSE mediaIDs(Tail(items))

RECURSIVE mediaKeys(_)
mediaKeys(items) ==
    IF items = <<>> THEN <<>>
    ELSE IF TrimSpace(Head(items).MediaKey) # <<>>
         THEN <<TrimSpace(Head(items).MediaKey)>> \o mediaKeys(Tail(items))
         ELSE mediaKeys(Tail(items))

RECURSIVE UniqueFrom(_, _)
UniqueFrom(items, out) ==
    IF items = <<>> THEN out
    ELSE IF Head(items) = <<>> \/ Head(items) \in SeqRange(out)
         THEN UniqueFrom(Tail(items), out)
         ELSE UniqueFrom(Tail(items), Append(out, Head(items)))

uniqueNonEmpty(items) == UniqueFrom(items, <<>>)

\* A request body: the key text is present or not, and the key media holds
\* one list under media_ids or under media_keys, or is absent ("none").
Body(hasText, txt, mediaField, list) ==
    [hasText |-> hasText, text |-> txt, mediaField |-> mediaField, list |-> list]

\* the value CreateTweet stores under the key text
BodyText(txt) == TrimSpace(txt)

\* mutant of BodyMediaIDs: the ids are not de-duplicated
BodyMediaIDsWithDuplicates(media) == mediaIDs(media)

\* the ids CreateTweet attaches under media.media_ids
BodyMediaIDs(media) == uniqueNonEmpty(mediaIDs(media))

\* the body of the first submission
FirstBody(txt, media) ==
    Body(TrimSpace(txt) # <<>>,
         IF TrimSpace(txt) # <<>> THEN BodyText(txt) ELSE <<>>,
         IF Len(BodyMediaIDs(media)) > 0 THEN "media_ids" ELSE "none",
         BodyMediaIDs(media))

\* mutant of RetriesWithKeys: every failed submission is retried
RetriesAlways(media) == TRUE

\* the test that decides the second submission
RetriesWithKeys(media) == Len(uniqueNonEmpty(mediaKeys(media))) > 0

\* the body of the second submission: media replaced by the media keys
RetryBody(txt, media) ==
    [FirstBody(txt, media) EXCEPT !.mediaField = "media_keys",
                                  !.list = uniqueNonEmpty(mediaKeys(media))]

\* What p.client.Posts.Create gives: the post, or an error.
PostUpstream(done) ==
    IF done THEN {Outcome(FALSE, CtxErr, 0)}
    ELSE {Outcome(FALSE, r, 0) : r \in Reasons} \cup {Outcome(TRUE, "", 0)}

Post(body, o) ==
    [body |-> body, ok |-> o.ok, reason |-> o.reason, ctxDone |-> ctxDone]

TweetRet(o) == [done |-> TRUE, ok |-> o.ok, reason |-> o.reason]
NoTweetRet == [done |-> FALSE, ok |-> FALSE, reason |-> ""]

\* CreateTweet returns: with the post the caller goes on to persist the
\* token, with the error it answers 502
TweetReturns(o) ==
    /\ tweetRet' = TweetRet(o)
    /\ status' = IF o.ok THEN status ELSE Answer(502)
    /\ pc' = IF o.ok THEN "persist" ELSE "done"

\* CreateTweet up to the return of the first p.client.Posts.Create
CreateTweetFirst ==
    /\ pc = "tweet"
    /\ \E o \in PostUpstream(ctxDone) :
         /\ posts' = Append(posts, Post(FirstBody(text, uploaded), o))
         /\ IF o.ok \/ ~RetriesWithKeys(uploaded)
            THEN TweetReturns(o)
            ELSE /\ pc' = "tweet_retry"
                 /\ UNCHANGED <<tweetRet, status>>
    /\ UNCHANGED <<frontend, request, response, persisted, uploads,
                   poster, ctxDone, slot, text, pending, errs, initRef, appendErr,
                   uploaded, upRet, attempts, calls, resolveVars, fileVars,
                   bootVars, authVars, lockVars, fnVars, vercelVars>>

\* the second p.client.Posts.Create, whose result CreateTweet returns
CreateTweetRetry ==
    /\ pc = "tweet_retry"
    /\ \E o \in PostUpstream(ctxDone) :
         /\ posts' = Append(posts, Post(RetryBody(text, uploaded), o))
         /\ TweetReturns(o)
    /\ UNCHANGED <<frontend, request, response, persisted, uploads,
                   poster, ctxDone, slot, text, pending, errs, initRef, appendErr,
                   uploaded, upRet, attempts, calls, resolveVars, fileVars,
                   bootVars, authVars, lockVars, fnVars, vercelVars>>

\* the caller cancels the request, or its 90 s deadline elapses
Cancel ==
    /\ ~ctxDone
    /\ pc # "done"
    /\ ctxDone' = TRUE
    /\ UNCHANGED <<frontend, request, response, persisted, uploads,
                   poster, pc, slot, text, pending, errs, initRef, appendErr,
                   uploaded, upRet, tweetRet, status, attempts, calls, posts,
                   resolveVars, fileVars,
                   bootVars, authVars, lockVars, fnVars, vercelVars>>

\* -------------------------------------------------------------- newPoster

Blank(s) == TrimSpace(s) = <<>>

XAuthConfig(apiKey, apiSecret, accessToken, accessTokenSecret, clientID, clientSecret, redirectURI, scope, oauth2AccessToken, refreshToken, tokenType, expiresAt) ==
    [APIKey |-> apiKey, APISecret |-> apiSecret, AccessToken |-> accessToken,
     AccessTokenSecret |-> accessTokenSecret, OAuth2ClientID |-> clientID,
     OAuth2ClientSecret |-> clientSecret, OAuth2RedirectURI |-> redirectURI,
     OAuth2Scope |-> scope, OAuth2AccessToken |-> oauth2AccessToken,
     OAuth2RefreshToken |-> refreshToken, OAuth2TokenType |-> tokenType,
     OAuth2ExpiresAt |-> expiresAt]

\* the zero XAuthConfig
ZeroAuth ==
    XAuthConfig(<<>>, <<>>, <<>>, <<>>, <<>>, <<>>, <<>>, <<>>, <<>>, <<>>, <<>>, 0)

\* mutant of hasAnyOAuth1Fields: the fields are compared without trimming
hasAnyOAuth1FieldsUntrimmed(cfg) ==
    \/ cfg.APIKey # <<>>
    \/ cfg.APISecret # <<>>
    \/ cfg.AccessToken # <<>>
    \/ cfg.AccessTokenSecret # <<>>

hasAnyOAuth1Fields(cfg) ==
    \/ TrimSpace(cfg.APIKey) # <<>>
    \/ TrimSpace(cfg.APISecret) # <<>>
    \/ TrimSpace(cfg.AccessToken) # <<>>
    \/ TrimSpace(cfg.AccessTokenSecret) # <<>>

\* mutant of missingOAuth1Fields: the secret is tested in place of the
\* token secret, and reported before the access token
missingOAuth1FieldsSwapped(cfg) ==
    (IF TrimSpace(cfg.APIKey) = <<>> THEN <<"api_key">> ELSE <<>>)
    \o (IF TrimSpace(cfg.AccessToken) = <<>> THEN <<"access_token">> ELSE <<>>)
    \o (IF TrimSpace(cfg.APISecret) = <<>> THEN <<"api_secret">> ELSE <<>>)
    \o (IF TrimSpace(cfg.APISecret) = <<>>
        THEN <<"access_token_secret">> ELSE <<>>)

missingOAuth1Fields(cfg) ==
    (IF TrimSpace(cfg.APIKey) = <<>> THEN <<"api_key">> ELSE <<>>)
    \o (IF TrimSpace(cfg.APISecret) = <<>> THEN <<"api_secret">> ELSE <<>>)
    \o (IF TrimSpace(cfg.AccessToken) = <<>> THEN <<"access_token">> ELSE <<>>)
    \o (IF TrimSpace(cfg.AccessTokenSecret) = <<>>
        THEN <<"access_token_secret">> ELSE <<>>)

DefaultScopes ==
    << <<"tweet.read">>, <<"tweet.write">>, <<"users.read">>, <<"offline.access">> >>

effectiveOAuth2Scopes(scopes) ==
    IF Len(scopes) = 0 THEN DefaultScopes ELSE uniqueNonEmpty(scopes)

\* strings.Join of Go strings
RECURSIVE JoinStrings(_, _)
JoinStrings(items, sep) ==
    IF items = <<>> THEN <<>>
    ELSE IF Len(items) = 1 THEN items[1]
    ELSE items[1] \o sep \o JoinStrings(Tail(items), sep)

\* oauth2TokenFromConfig: the token map, an absent entry being empty or 0
oauth2TokenFromConfig(cfg) ==
    [access_token |-> TrimSpace(cfg.OAuth2AccessToken),
     refresh_token |-> TrimSpace(cfg.OAuth2RefreshToken),
     token_type |-> TrimSpace(cfg.OAuth2TokenType),
     scope |-> TrimSpace(JoinStrings(cfg.OAuth2Scope, <<" ">>)),
     expires_at |-> IF cfg.OAuth2ExpiresAt > 0 THEN cfg.OAuth2ExpiresAt ELSE 0]

NoToken ==
    [access_token |-> <<>>, refresh_token |-> <<>>, token_type |-> <<>>,
     scope |-> <<>>, expires_at |-> 0]

\* the xdk client: Auth is the OAuth1 signer (present or not), the other
\* fields are those of xdk.Config
Client(auth, accessToken, clientID, clientSecret, redirectURI, scope, token) ==
    [Auth |-> auth, AccessToken |-> accessToken, ClientID |-> clientID,
     ClientSecret |-> clientSecret, RedirectURI |-> redirectURI,
     Scope |-> scope, Token |-> token]

NilClient == Client(FALSE, <<>>, <<>>, <<>>, <<>>, <<>>, NoToken)

\* a *Poster, nil or not
Poster(client, authMode) == [nil |-> FALSE, client |-> client, authMode |-> authMode]
NilPoster == [nil |-> TRUE, client |-> NilClient, authMode |-> ""]

IncompletePrefix == "incomplete OAuth1 config, missing: "
MissingAuthMsg ==
    "missing x auth configuration (set OAuth1 fields or oauth2_access_token)"

\* what newPoster returns: the poster and the error message, <<>> for nil
Resolved(p, err) == [done |-> TRUE, poster |-> p, err |-> err]
NotResolved == [done |-> FALSE, poster |-> NilPoster, err |-> <<>>]

\* the client of the OAuth2 branch
OAuth2Client(cfg) ==
    IF TrimSpace(cfg.OAuth2ClientID) # <<>>
    THEN Client(FALSE, cfg.OAuth2AccessToken, TrimSpace(cfg.OAuth2ClientID),
                TrimSpace(cfg.OAuth2ClientSecret), TrimSpace(cfg.OAuth2RedirectURI),
                effectiveOAuth2Scopes(cfg.OAuth2Scope), oauth2TokenFromConfig(cfg))
    ELSE Client(FALSE, cfg.OAuth2AccessToken, <<>>, <<>>, <<>>, <<>>, NoToken)

\* mutant of newPoster: the OAuth2 access token is looked at first
newPosterOAuth2First(cfg) ==
    IF TrimSpace(cfg.OAuth2AccessToken) # <<>>
    THEN Resolved(Poster(OAuth2Client(cfg), ModeOAuth2), <<>>)
    ELSE IF hasAnyOAuth1Fields(cfg)
         THEN IF Len(missingOAuth1Fields(cfg)) > 0
              THEN Resolved(NilPoster,
                            <<IncompletePrefix>> \o Join(missingOAuth1Fields(cfg), ", "))
              ELSE Resolved(Poster(Client(TRUE, <<>>, <<>>, <<>>, <<>>, <<>>, NoToken),
                                   ModeOAuth1), <<>>)
         ELSE Resolved(NilPoster, <<MissingAuthMsg>>)

newPoster(cfg) ==
    IF hasAnyOAuth1Fields(cfg)
    THEN IF Len(missingOAuth1Fields(cfg)) > 0
         THEN Resolved(NilPoster,
                       <<IncompletePrefix>> \o Join(missingOAuth1Fields(cfg), ", "))
         ELSE Resolved(Poster(Client(TRUE, <<>>, <<>>, <<>>, <<>>, <<>>, NoToken),
                              ModeOAuth1), <<>>)
    ELSE IF TrimSpace(cfg.OAuth2AccessToken) # <<>>
         THEN Resolved(Poster(OAuth2Client(cfg), ModeOAuth2), <<>>)
         ELSE Resolved(NilPoster, <<MissingAuthMsg>>)

\* newPoster applied to the configuration
Resolve ==
    /\ ~resolved.done
    /\ resolved' = newPoster(authCfg)
    /\ UNCHANGED <<authCfg, pipeVars, fileVars,
                   bootVars, authVars, lockVars, fnVars, vercelVars>>

\* ------------------------------------------------- the configuration file

Config(addr, apiToken, x) == [Addr |-> addr, APIToken |-> apiToken, X |-> x]

defaultServerAddr == <<":", "8", "0", "8", "0">>

\* Tokens generateToken may return: 32 random bytes in URL-safe base64,
\* never blank.
FreshTokens == {<<"g", "1">>, <<"g", "2">>}

\* A file holds a sequence of tokens. A marshalled document is its members
\* <<name, value>> in the order of the struct fields, closed by EndToken;
\* a member tagged omitempty is left out when its value is empty or 0.
EndToken == <<"}", <<>>>>

Member(name, v) == << <<name, v>> >>
OmitEmpty(name, v, empty) == IF v = empty THEN <<>> ELSE Member(name, v)

\* mutant of Marshal: the address is tagged omitempty and the scope list
\* is not written
MarshalWithoutScope(cfg) ==
    OmitEmpty("addr", cfg.Addr, defaultServerAddr)
    \o Member("api_token", cfg.APIToken)
    \o OmitEmpty("api_key", cfg.X.APIKey, <<>>)
    \o OmitEmpty("oauth2_access_token", cfg.X.OAuth2AccessToken, <<>>)
    \o OmitEmpty("oauth2_expires_at", cfg.X.OAuth2ExpiresAt, 0)
    \o <<EndToken>>

\* json.MarshalIndent(cfg, "", "  ")
Marshal(cfg) ==
    Member("addr", cfg.Addr)
    \o Member("api_token", cfg.APIToken)
    \o OmitEmpty("api_key", cfg.X.APIKey, <<>>)
    \o OmitEmpty("api_secret", cfg.X.APISecret, <<>>)
    \o OmitEmpty("access_token", cfg.X.AccessToken, <<>>)
    \o OmitEmpty("access_token_secret", cfg.X.AccessTokenSecret, <<>>)
    \o OmitEmpty("oauth2_client_id", cfg.X.OAuth2ClientID, <<>>)
    \o OmitEmpty("oauth2_client_secret", cfg.X.OAuth2ClientSecret, <<>>)
    \o OmitEmpty("oauth2_redirect_uri", cfg.X.OAuth2RedirectURI, <<>>)
    \o OmitEmpty("oauth2_scope", cfg.X.OAuth2Scope, <<>>)
    \o OmitEmpty("oauth2_access_token", cfg.X.OAuth2AccessToken, <<>>)
    \o OmitEmpty("oauth2_refresh_token", cfg.X.OAuth2RefreshToken, <<>>)
    \o OmitEmpty("oauth2_token_type", cfg.X.OAuth2TokenType, <<>>)
    \o OmitEmpty("oauth2_expires_at", cfg.X.OAuth2ExpiresAt, 0)
    \o <<EndToken>>

\* the document is one complete JSON value: closed once, at its end
ValidJSON(content) ==
    /\ Len(content) > 0
    /\ \A i \in 1..Len(content) : (content[i][1] = "}") <=> (i = Len(content))

\* one member of the document stored into the configuration
SetMember(cfg, name, v) ==
    CASE name = "addr" -> [cfg EXCEPT !.Addr = v]
      [] name = "api_token" -> [cfg EXCEPT !.APIToken = v]
      [] name = "api_key" -> [cfg EXCEPT !.X.APIKey = v]
      [] name = "api_secret" -> [cfg EXCEPT !.X.APISecret = v]
      [] name = "access_token" -> [cfg EXCEPT !.X.AccessToken = v]
      [] name = "access_token_secret" -> [cfg EXCEPT !.X.AccessTokenSecret = v]
      [] name = "oauth2_client_id" -> [cfg EXCEPT !.X.OAuth2ClientID = v]
      [] name = "oauth2_client_secret" -> [cfg EXCEPT !.X.OAuth2ClientSecret = v]
      [] name = "oauth2_redirect_uri" -> [cfg EXCEPT !.X.OAuth2RedirectURI = v]
      [] name = "oauth2_scope" -> [cfg EXCEPT !.X.OAuth2Scope = v]
      [] name = "oauth2_access_token" -> [cfg EXCEPT !.X.OAuth2AccessToken = v]
      [] name = "oauth2_refresh_token" -> [cfg EXCEPT !.X.OAuth2RefreshToken = v]
      [] name = "oauth2_token_type" -> [cfg EXCEPT !.X.OAuth2TokenType = v]
      [] name = "oauth2_expires_at" -> [cfg EXCEPT !.X.OAuth2ExpiresAt = v]
      [] OTHER -> cfg

\* json.Unmarshal(content, cfg) of a valid document: the members present
\* overwrite the fields of cfg, the others keep their value
RECURSIVE Unmarshal(_, _)
Unmarshal(content, cfg) ==
    IF content = <<>> \/ Head(content)[1] = "}" THEN cfg
    ELSE Unmarshal(Tail(content), SetMember(cfg, Head(content)[1], Head(content)[2]))

\* a write of data at offset 0 of a file holding old
WriteAt0(old, data) ==
    IF Len(old) > Len(data) THEN data \o SubSeq(old, Len(data) + 1, Len(old)) ELSE data

Writer(wpc, cfg, fd, err) == [pc |-> wpc, cfg |-> cfg, fd |-> fd, err |-> err]

Writers == 1..MaxWriters

\* saveConfig, os.WriteFile(tmpPath, ...): the open creates the temp file
\* or truncates the one that is there
SaveOpen(w) ==
    /\ writers[w].pc = "open"
    /\ IF files.tmp = 0
       THEN /\ inodes' = Append(inodes, <<>>)
            /\ files' = [files EXCEPT !.tmp = Len(inodes) + 1]
            /\ writers' = [writers EXCEPT ![w].pc = "write", ![w].fd = Len(inodes) + 1]
       ELSE /\ inodes' = [inodes EXCEPT ![files.tmp] = <<>>]
            /\ files' = files
            /\ writers' = [writers EXCEPT ![w].pc = "write", ![w].fd = files.tmp]
    /\ UNCHANGED <<lastRead, renames, loaded, pipeVars, resolveVars,
                   bootVars, authVars, lockVars, fnVars, vercelVars>>

\* saveConfig, os.WriteFile: the data written through the open descriptor
SaveWrite(w) ==
    /\ writers[w].pc = "write"
    /\ inodes' = [inodes EXCEPT ![writers[w].fd] = WriteAt0(@, Marshal(writers[w].cfg))]
    /\ writers' = [writers EXCEPT ![w].pc = "rename"]
    /\ UNCHANGED <<files, lastRead, renames, loaded, pipeVars, resolveVars,
                   bootVars, authVars, lockVars, fnVars, vercelVars>>

\* the directory after os.Rename(tmpPath, path)
Renamed(dir) == [dir EXCEPT !.path = dir.tmp, !.tmp = 0]

\* saveConfig, os.Rename(tmpPath, path): fails when the temp file is gone
SaveRename(w) ==
    /\ writers[w].pc = "rename"
    /\ IF files.tmp = 0
       THEN /\ writers' = [writers EXCEPT ![w].pc = "done", ![w].err = "ENOENT"]
            /\ UNCHANGED <<files, renames>>
       ELSE /\ files' = Renamed(files)
            /\ renames' = Append(renames, w)
            /\ writers' = [writers EXCEPT ![w].pc = "done"]
    /\ UNCHANGED <<inodes, lastRead, loaded, pipeVars, resolveVars,
                   bootVars, authVars, lockVars, fnVars, vercelVars>>

\* an observer reads the file at path (os.ReadFile)
ReadPath ==
    /\ files.path # 0
    /\ lastRead' = [done |-> TRUE, content |-> inodes[files.path]]
    /\ UNCHANGED <<files, inodes, writers, renames, loaded, pipeVars, resolveVars,
                   bootVars, authVars, lockVars, fnVars, vercelVars>>

\* the directory and the inodes after a saveConfig(path, cfg) that ran
\* alone: temp file written in full, then renamed over path
SavedFiles(dir, ins, cfg) ==
    IF dir.tmp = 0
    THEN [files |-> [dir EXCEPT !.path = Len(ins) + 1],
          inodes |-> Append(ins, Marshal(cfg))]
    ELSE [files |-> Renamed(dir),
          inodes |-> [ins EXCEPT ![dir.tmp] = Marshal(cfg)]]

DefaultConfig == Config(defaultServerAddr, <<>>, ZeroAuth)
NilConfig == Config(<<>>, <<>>, ZeroAuth)

\* what loadOrInitConfig returns, and whether it called saveConfig
Loaded(cfg, firstBoot, err, saved) ==
    [done |-> TRUE, cfg |-> cfg, firstBoot |-> firstBoot, err |-> err, saved |-> saved]
NotLoaded ==
    [done |-> FALSE, cfg |-> NilConfig, firstBoot |-> FALSE, err |-> "", saved |-> FALSE]

\* the backfill of a blank address
BackfillAddr(cfg) ==
    IF TrimSpace(cfg.Addr) = <<>> THEN [cfg EXCEPT !.Addr = defaultServerAddr] ELSE cfg

\* mutant of BackfillToken: a token is generated whatever the file holds
BackfillTokenAlways(cfg, tok) == [cfg EXCEPT !.APIToken = tok]

\* the backfill of a blank API token with the generated token tok
BackfillToken(cfg, tok) ==
    IF TrimSpace(cfg.APIToken) = <<>> THEN [cfg EXCEPT !.APIToken = tok] ELSE cfg

\* loadOrInitConfig for the generated token tok, should one be needed: the
\* result, and the configuration it saves ("changed" or the file absent)
loadOrInitConfig(dir, ins, tok) ==
    IF dir.path = 0
    THEN Loaded([DefaultConfig EXCEPT !.APIToken = tok], TRUE, "", TRUE)
    ELSE IF Len(ins[dir.path]) > 0 /\ ~ValidJSON(ins[dir.path])
         THEN Loaded(NilConfig, FALSE, "json: cannot unmarshal", FALSE)
         ELSE LET read == IF Len(ins[dir.path]) > 0
                          THEN Unmarshal(ins[dir.path], DefaultConfig)
                          ELSE DefaultConfig
                  cfg == BackfillToken(BackfillAddr(read), tok)
              IN Loaded(cfg, FALSE, "", cfg # read)

\* loadOrInitConfig(path), run after the save of process 1 returned
Load ==
    /\ writers[1].pc = "done"
    /\ ~loaded.done
    /\ \E tok \in FreshTokens :
         /\ loaded' = loadOrInitConfig(files, inodes, tok)
         /\ IF loaded'.saved
            THEN /\ files' = SavedFiles(files, inodes, loaded'.cfg).files
                 /\ inodes' = SavedFiles(files, inodes, loaded'.cfg).inodes
            ELSE UNCHANGED <<files, inodes>>
    /\ UNCHANGED <<writers, lastRead, renames, pipeVars, resolveVars,
                   bootVars, authVars, lockVars, fnVars, vercelVars>>

\* one finished loadOrInitConfig call: whether it found the file, and what
\* it returned
LoadRecord(dir, ret) == [absent |-> dir.path = 0, ret |-> ret]

\* the file system after loadOrInitConfig returned ret
LoadStep(ret) ==
    IF ret.saved
    THEN /\ files' = SavedFiles(files, inodes, ret.cfg).files
         /\ inodes' = SavedFiles(files, inodes, ret.cfg).inodes
    ELSE UNCHANGED <<files, inodes>>

\* loadOrInitConfig(path) called once more on the file as it is now
LoadOrInit ==
    /\ bootPc = "load"
    /\ Len(loads) < MaxLoads
    /\ \E tok \in FreshTokens :
         /\ loads' = Append(loads, LoadRecord(files, loadOrInitConfig(files, inodes, tok)))
         /\ appCfg' = loadOrInitConfig(files, inodes, tok).cfg
         /\ LoadStep(loadOrInitConfig(files, inodes, tok))
    /\ UNCHANGED <<env, bootPc, writers, lastRead, renames, loaded,
                   pipeVars, resolveVars, authVars, lockVars, fnVars, vercelVars>>

\* -------------------------------------------------- start-up of a process

\* the environment of a process: the variables overrideConfigFromEnv reads
\* (without their XPOST_ and X_ prefixes) and the command the process runs
Env(command, addr, apiToken, apiKey, apiSecret, accessToken, accessTokenSecret, clientID, clientSecret, redirectURI, scope, oauth2AccessToken, refreshToken, tokenType, expiresAt) ==
    [command |-> command, ADDR |-> addr, API_TOKEN |-> apiToken,
     API_KEY |-> apiKey, API_SECRET |-> apiSecret, ACCESS_TOKEN |-> accessToken,
     ACCESS_TOKEN_SECRET |-> accessTokenSecret, OAUTH2_CLIENT_ID |-> clientID,
     OAUTH2_CLIENT_SECRET |-> clientSecret, OAUTH2_REDIRECT_URI |-> redirectURI,
     OAUTH2_SCOPE |-> scope, OAUTH2_ACCESS_TOKEN |-> oauth2AccessToken,
     OAUTH2_REFRESH_TOKEN |-> refreshToken, OAUTH2_TOKEN_TYPE |-> tokenType,
     OAUTH2_EXPIRES_AT |-> expiresAt]

NoEnv ==
    Env("", <<>>, <<>>, <<>>, <<>>, <<>>, <<>>, <<>>, <<>>, <<>>, <<>>, <<>>, <<>>, <<>>, <<>>)


\* strings.Split(s, sep) for separators of one character, and strings.Fields
\* without its dropping of empty parts: the parts of s between characters
\* of seps
RECURSIVE SplitAcc(_, _, _, _)
SplitAcc(s, seps, cur, out) ==
    IF s = <<>> THEN Append(out, cur)
    ELSE IF Head(s) \in seps
         THEN SplitAcc(Tail(s), seps, <<>>, Append(out, cur))
         ELSE SplitAcc(Tail(s), seps, Append(cur, Head(s)), out)

Split(s, seps) == SplitAcc(s, seps, <<>>, <<>>)

TrimEach(parts) == [i \in 1..Len(parts) |-> TrimSpace(parts[i])]

splitCSV(raw) ==
    IF TrimSpace(raw) = <<>> THEN <<>>
    ELSE uniqueNonEmpty(TrimEach(Split(raw, {","})))

\* strings.Fields
Fields(s) == SelectSeq(Split(s, SpaceChars), LAMBDA part : part # <<>>)

DigitChars == {"0", "1", "2", "3", "4", "5", "6", "7", "8", "9"}

DigitValue(c) == CHOOSE d \in 0..9 : Digit(d) = c

RECURSIVE ParseDigits(_, _)
ParseDigits(s, acc) ==
    IF s = <<>> THEN acc ELSE ParseDigits(Tail(s), 10 * acc + DigitValue(Head(s)))

\* strconv.ParseInt(s, 10, 64) on the short strings of the model
ParseInt(s) ==
    LET neg == s # <<>> /\ Head(s) = "-"
        digits == IF s # <<>> /\ Head(s) \in {"-", "+"} THEN Tail(s) ELSE s
    IN IF digits = <<>> \/ \E i \in 1..Len(digits) : digits[i] \notin DigitChars
       THEN [ok |-> FALSE, n |-> 0]
       ELSE [ok |-> TRUE,
             n |-> IF neg THEN 0 - ParseDigits(digits, 0) ELSE ParseDigits(digits, 0)]

\* if v := strings.TrimSpace(os.Getenv(...)); v != "" { field = v }
OverrideString(v, old) == IF TrimSpace(v) # <<>> THEN TrimSpace(v) ELSE old

\* mutant of overrideConfigFromEnv: XPOST_API_TOKEN is copied even when it
\* is blank
overrideConfigFromEnvUnguarded(c, e) ==
    [c EXCEPT !.Addr = OverrideString(e.ADDR, @),
              !.APIToken = TrimSpace(e.API_TOKEN),
              !.X.APIKey = OverrideString(e.API_KEY, @),
              !.X.OAuth2AccessToken = OverrideString(e.OAUTH2_ACCESS_TOKEN, @)]

overrideConfigFromEnv(c, e) ==
    [c EXCEPT !.Addr = OverrideString(e.ADDR, @),
              !.APIToken = OverrideString(e.API_TOKEN, @),
              !.X.APIKey = OverrideString(e.API_KEY, @),
              !.X.APISecret = OverrideString(e.API_SECRET, @),
              !.X.AccessToken = OverrideString(e.ACCESS_TOKEN, @),
              !.X.AccessTokenSecret = OverrideString(e.ACCESS_TOKEN_SECRET, @),
              !.X.OAuth2ClientID = OverrideString(e.OAUTH2_CLIENT_ID, @),
              !.X.OAuth2ClientSecret = OverrideString(e.OAUTH2_CLIENT_SECRET, @),
              !.X.OAuth2RedirectURI = OverrideString(e.OAUTH2_REDIRECT_URI, @),
              !.X.OAuth2Scope = IF TrimSpace(e.OAUTH2_SCOPE) # <<>>
                                THEN splitCSV(TrimSpace(e.OAUTH2_SCOPE)) ELSE @,
              !.X.OAuth2AccessToken = OverrideString(e.OAUTH2_ACCESS_TOKEN, @),
              !.X.OAuth2RefreshToken = OverrideString(e.OAUTH2_REFRESH_TOKEN, @),
              !.X.OAuth2TokenType = OverrideString(e.OAUTH2_TOKEN_TYPE, @),
              !.X.OAuth2ExpiresAt =
                  IF TrimSpace(e.OAUTH2_EXPIRES_AT) # <<>>
                     /\ ParseInt(TrimSpace(e.OAUTH2_EXPIRES_AT)).ok
                  THEN ParseInt(TrimSpace(e.OAUTH2_EXPIRES_AT)).n ELSE @]

FirstBootAuthMsg ==
    "set OAuth1 credentials via X_API_KEY/X_API_SECRET/X_ACCESS_TOKEN/X_ACCESS_TOKEN_SECRET, or set X_OAUTH2_ACCESS_TOKEN"

\* ensureFirstBootAuthConfigured: the error, "" for nil
ensureFirstBootAuthConfigured(x) ==
    IF TrimSpace(x.OAuth2AccessToken) # <<>> THEN ""
    ELSE IF Len(missingOAuth1Fields(x)) = 0 THEN ""
    ELSE FirstBootAuthMsg

\* the token map of the xdk client (client.OAuth2Token(), FetchToken): an
\* absent entry is JNull, and the map is empty when every entry is absent
OAuth2Token(access, refresh, type, scope, expiresAt, expiresIn) ==
    [access_token |-> access, refresh_token |-> refresh, token_type |-> type,
     scope |-> scope, expires_at |-> expiresAt, expires_in |-> expiresIn]

EmptyToken == OAuth2Token(JNull, JNull, JNull, JNull, JNull, JNull)

\* toInt64 of a token entry
toInt64(v) ==
    CASE v.t = "num" -> [ok |-> TRUE, n |-> v.n]
      [] v.t = "str" -> IF TrimSpace(v.s) = <<>> THEN [ok |-> FALSE, n |-> 0]
                        ELSE ParseInt(TrimSpace(v.s))
      [] OTHER -> [ok |-> FALSE, n |-> 0]

\* time.Now().Unix() when the token is applied
Clock == {100}

\* the expiry applyOAuth2TokenToConfig computes, 0 when there is none
TokenExpiresAt(token, now) ==
    IF toInt64(token.expires_at).ok THEN toInt64(token.expires_at).n
    ELSE IF toInt64(token.expires_in).ok /\ toInt64(token.expires_in).n > 0
         THEN now + toInt64(token.expires_in).n
         ELSE 0

\* an applyOAuth2TokenToConfig that stores the refresh token before it
\* looks at the access token
applyOAuth2TokenStoresFirst(x, token, now) ==
    IF TrimSpace(stringify(token.access_token)) = <<>>
    THEN [ok |-> FALSE,
          x |-> [x EXCEPT !.OAuth2RefreshToken = TrimSpace(stringify(token.refresh_token))]]
    ELSE [ok |-> TRUE, x |-> x]

\* applyOAuth2TokenToConfig(&cfg.X, token): whether it returned nil, and
\* the credentials after it
applyOAuth2TokenToConfig(x, token, now) ==
    IF TrimSpace(stringify(token.access_token)) = <<>>
    THEN [ok |-> FALSE, x |-> x]
    ELSE [ok |-> TRUE,
          x |-> [x EXCEPT
            !.OAuth2AccessToken = TrimSpace(stringify(token.access_token)),
            !.OAuth2RefreshToken = TrimSpace(stringify(token.refresh_token)),
            !.OAuth2TokenType = TrimSpace(stringify(token.token_type)),
            !.OAuth2Scope =
                LET scopeValue == TrimSpace(stringify(token.scope))
                IN IF scopeValue = <<>> THEN @
                   ELSE IF "," \in SeqRange(scopeValue) THEN splitCSV(scopeValue)
                   ELSE uniqueNonEmpty(Fields(scopeValue)),
            !.OAuth2ExpiresAt =
                IF TokenExpiresAt(token, now) > 0 THEN TokenExpiresAt(token, now) ELSE @]]

\* the file system after a saveConfig by a process running alone, the
\* file that path named before being unlinked by the rename
Unlinked(fs) ==
    [files |-> [path |-> 1, tmp |-> 0], inodes |-> <<fs.inodes[fs.files.path]>>]

\* saveConfig(path, c): it succeeds, or fails leaving the files as they are
SaveConfig(c, ok) ==
    IF ok
    THEN /\ files' = Unlinked(SavedFiles(files, inodes, c)).files
         /\ inodes' = Unlinked(SavedFiles(files, inodes, c)).inodes
    ELSE UNCHANGED <<files, inodes>>

\* persistOAuth2TokenIfAvailable(cfg, configPath, client) for the token the
\* client holds: the configuration after it, and whether it saves
persistOAuth2TokenIfAvailable(c, token, now) ==
    IF token = EmptyToken THEN [cfg |-> c, saves |-> FALSE]
    ELSE IF ~applyOAuth2TokenToConfig(c.X, token, now).ok
         THEN [cfg |-> c, saves |-> FALSE]
         ELSE [cfg |-> [c EXCEPT !.X = applyOAuth2TokenToConfig(c.X, token, now).x],
               saves |-> TRUE]

\* the tokens the xdk client may hold after a call, or FetchToken return
ClientTokens ==
    {OAuth2Token(JStr(<<"n">>), JStr(<<"r">>), JStr(<<"b", "e", "a", "r", "e", "r">>),
                 JStr(<<"a", " ", "b">>), JNum(5), JNull),
     OAuth2Token(JStr(<<"m">>), JNull, JNull, JStr(<<"a", ",", "b">>), JNull, JNum(10)),
     OAuth2Token(JNull, JStr(<<"r">>), JNull, JNull, JNull, JNull)}

LastLoad == loads[Len(loads)]

\* the client newPoster builds from x can refresh its token: OAuth2 mode
\* with a client id, the token of the configuration handed to the client
RefreshCapable(x) ==
    /\ ~newPoster(x).poster.nil
    /\ newPoster(x).poster.authMode = ModeOAuth2
    /\ newPoster(x).poster.client.ClientID # <<>>

\* RunLocal and loadCLIConfig: loadOrInitConfig(configPath)
BootLoad ==
    /\ bootPc = "load"
    /\ \E tok \in FreshTokens :
         /\ loads' = Append(loads, LoadRecord(files, loadOrInitConfig(files, inodes, tok)))
         /\ appCfg' = loadOrInitConfig(files, inodes, tok).cfg
         /\ LoadStep(loadOrInitConfig(files, inodes, tok))
         /\ bootPc' = IF loadOrInitConfig(files, inodes, tok).err # ""
                      THEN "failed" ELSE "override"
    /\ UNCHANGED <<env, writers, lastRead, renames, loaded,
                   pipeVars, resolveVars, authVars, lockVars, fnVars, vercelVars>>

\* RunLocal and loadCLIConfig: overrideConfigFromEnv(cfg), then the first
\* boot of the server or the command
BootOverride ==
    /\ bootPc = "override"
    /\ appCfg' = overrideConfigFromEnv(appCfg, env)
    /\ bootPc' = IF env.command = "serve"
                 THEN IF LastLoad.ret.firstBoot THEN "firstboot" ELSE "serve"
                 ELSE env.command
    /\ UNCHANGED <<env, loads, fileVars, pipeVars, resolveVars, authVars, lockVars, fnVars, vercelVars>>

\* RunLocal on first boot: the credential check, then saveConfig
FirstBootSave ==
    /\ bootPc = "firstboot"
    /\ IF ensureFirstBootAuthConfigured(appCfg.X) # ""
       THEN /\ bootPc' = "failed"
            /\ UNCHANGED <<files, inodes>>
       ELSE \E ok \in BOOLEAN :
              /\ SaveConfig(appCfg, ok)
              /\ bootPc' = IF ok THEN "serve" ELSE "failed"
    /\ UNCHANGED <<appCfg, env, loads, writers, lastRead, renames, loaded,
                   pipeVars, resolveVars, authVars, lockVars, fnVars, vercelVars>>

\* the configuration and the file after persistOAuth2TokenIfAvailable
PersistStep(token, now, ok) ==
    /\ appCfg' = persistOAuth2TokenIfAvailable(appCfg, token, now).cfg
    /\ IF persistOAuth2TokenIfAvailable(appCfg, token, now).saves
       THEN SaveConfig(persistOAuth2TokenIfAvailable(appCfg, token, now).cfg, ok)
       ELSE UNCHANGED <<files, inodes>>

\* App.persistOAuth2Token after a post of the server succeeded
ServePersist ==
    /\ bootPc = "serve"
    /\ RefreshCapable(appCfg.X)
    /\ \E token \in ClientTokens \cup {EmptyToken}, now \in Clock, ok \in BOOLEAN :
         PersistStep(token, now, ok)
    /\ UNCHANGED <<env, bootPc, loads, writers, lastRead, renames, loaded,
                   pipeVars, resolveVars, authVars, lockVars, fnVars, vercelVars>>

\* runTweetCommand after loadCLIConfig: newPoster, the post, and the
\* token persisted when the post succeeded
CliTweet ==
    /\ bootPc = "tweet"
    /\ IF newPoster(appCfg.X).poster.nil
       THEN bootPc' = "failed" /\ UNCHANGED <<appCfg, files, inodes>>
       ELSE \/ bootPc' = "failed" /\ UNCHANGED <<appCfg, files, inodes>>
            \/ /\ bootPc' = "exit"
               /\ IF RefreshCapable(appCfg.X)
                  THEN \E token \in ClientTokens \cup {EmptyToken}, now \in Clock,
                          ok \in BOOLEAN : PersistStep(token, now, ok)
                  ELSE UNCHANGED <<appCfg, files, inodes>>
    /\ UNCHANGED <<env, loads, writers, lastRead, renames, loaded,
                   pipeVars, resolveVars, authVars, lockVars, fnVars, vercelVars>>

defaultRedirectURI == <<"h", "t", "t", "p", ":", "/", "/", "l">>

\* the flags of the login command: --client-id given or not
LoginClientIDs == {<<>>, <<"c">>}

\* the configuration runLoginCommand hands to applyOAuth2TokenToConfig
LoginConfig(c, clientID) ==
    LET c1 == [c EXCEPT !.X.OAuth2ClientID = OverrideString(clientID, @)]
        c2 == [c1 EXCEPT !.X.OAuth2RedirectURI =
                           IF TrimSpace(@) = <<>> THEN defaultRedirectURI ELSE @]
    IN [c2 EXCEPT !.X.OAuth2Scope = effectiveOAuth2Scopes(@)]

\* runLoginCommand after loadCLIConfig
CliLogin ==
    /\ bootPc = "login"
    /\ \E clientID \in LoginClientIDs :
         IF TrimSpace(LoginConfig(appCfg, clientID).X.OAuth2ClientID) = <<>>
         THEN bootPc' = "failed" /\ UNCHANGED <<appCfg, files, inodes>>
         ELSE \/ bootPc' = "failed" /\ UNCHANGED <<appCfg, files, inodes>>
              \/ \E token \in ClientTokens, now \in Clock, ok \in BOOLEAN :
                   LET r == applyOAuth2TokenToConfig(LoginConfig(appCfg, clientID).X,
                                                     token, now)
                   IN /\ appCfg' = [LoginConfig(appCfg, clientID) EXCEPT !.X = r.x]
                      /\ IF r.ok
                         THEN /\ SaveConfig(appCfg', ok)
                              /\ bootPc' = IF ok THEN "exit" ELSE "failed"
                         ELSE /\ bootPc' = "failed"
                              /\ UNCHANGED <<files, inodes>>
    /\ UNCHANGED <<env, loads, writers, lastRead, renames, loaded,
                   pipeVars, resolveVars, authVars, lockVars, fnVars, vercelVars>>

Commands == {"serve", "login", "tweet"}

\* the environments a process may be started with
Envs ==
    {[e EXCEPT !.command = c] : c \in Commands, e \in {
        NoEnv,
        [NoEnv EXCEPT !.API_TOKEN = <<" ", "e", " ">>, !.ADDR = <<":", "9">>],
        [NoEnv EXCEPT !.API_KEY = <<"k">>, !.API_SECRET = <<"s">>,
                      !.ACCESS_TOKEN = <<"t">>, !.ACCESS_TOKEN_SECRET = <<"u">>],
        [NoEnv EXCEPT !.OAUTH2_ACCESS_TOKEN = <<"b">>, !.OAUTH2_CLIENT_ID = <<"c">>,
                      !.OAUTH2_SCOPE = <<"a", ",", " ", "b", ",", "a">>,
                      !.OAUTH2_EXPIRES_AT = <<"7">>],
        [NoEnv EXCEPT !.API_TOKEN = <<" ">>, !.API_KEY = <<"k">>,
                      !.OAUTH2_EXPIRES_AT = <<"x">>]}}

\* the process ended or is stopped, and the next one starts on the same
\* file with an environment of its own
Restart ==
    /\ bootPc \in {"serve", "exit", "failed"}
    /\ Len(loads) < MaxRuns
    /\ env' \in Envs
    /\ bootPc' = "load"
    /\ appCfg' = NilConfig
    /\ UNCHANGED <<loads, fileVars, pipeVars, resolveVars, authVars, lockVars, fnVars, vercelVars>>

\* ----------------------------------------------------- the API token check

\* unicode.ToLower on the letters the headers of the model use
LowerLetter(c) ==
    CASE c = "B" -> "b" [] c = "E" -> "e" [] c = "A" -> "a" [] c = "R" -> "r"
      [] OTHER -> c

\* strings.EqualFold of two Go strings
EqualFoldChars(a, b) ==
    /\ Len(a) = Len(b)
    /\ \A i \in 1..Len(a) : LowerLetter(a[i]) = LowerLetter(b[i])

BearerPrefix == <<"B", "e", "a", "r", "e", "r", " ">>

\* mutant of readTokenFromRequest: X-API-Token is read first
readTokenFromRequestXFirst(h) ==
    IF TrimSpace(h.XAPIToken) # <<>> THEN TrimSpace(h.XAPIToken)
    ELSE IF Len(TrimSpace(h.Authorization)) > 7
            /\ EqualFoldChars(SubSeq(TrimSpace(h.Authorization), 1, 7), BearerPrefix)
         THEN TrimSpace(SubSeq(TrimSpace(h.Authorization), 8,
                               Len(TrimSpace(h.Authorization))))
         ELSE <<>>

readTokenFromRequest(h) ==
    LET authHeader == TrimSpace(h.Authorization)
    IN IF Len(authHeader) > 7 /\ EqualFoldChars(SubSeq(authHeader, 1, 7), BearerPrefix)
       THEN TrimSpace(SubSeq(authHeader, 8, Len(authHeader)))
       ELSE TrimSpace(h.XAPIToken)

\* subtle.ConstantTimeCompare(x, y) = 1
ConstantTimeEqual(x, y) == Len(x) = Len(y) /\ \A i \in 1..Len(x) : x[i] = y[i]

\* what the middleware does with a request: 503, 401, or 200 for c.Next()
authMiddleware(expected, h) ==
    IF expected = <<>> THEN 503
    ELSE IF ~ConstantTimeEqual(readTokenFromRequest(h), expected) THEN 401
    ELSE 200

\* the middleware runs on a request
Authenticate ==
    /\ authStatus = 0
    /\ authStatus' = authMiddleware(appCfg.APIToken, headers)
    /\ UNCHANGED <<headers, bootVars, pipeVars, resolveVars, fileVars, lockVars, fnVars, vercelVars>>

\* ------------------------------------------- the request around the chain

maxMediaCount == 4

Request(txt, media, malformed) ==
    [text |-> txt, media |-> media, malformed |-> malformed]

\* parseTweetRequest (the flags and files of the CLI) returns an error:
\* a body that cannot be decoded or read, too many media items, or
\* neither text nor media
InvalidRequest(r) ==
    \/ r.malformed
    \/ r.media > maxMediaCount
    \/ TrimSpace(r.text) = <<>> /\ r.media = 0

\* the handler leaves before any upload, with the status code
Refused(code) ==
    /\ status' = code
    /\ pc' = "done"
    /\ UNCHANGED <<text, pending>>

\* handleCreateTweet up to the upload loop: getPoster (503), then
\* parseTweetRequest (400); runTweetCommand up to its loop: the arguments,
\* then loadCLIConfig and newPoster
HandleStart ==
    /\ pc = "start"
    /\ IF frontend # "cli" /\ poster.nil THEN Refused(503)
       ELSE IF InvalidRequest(request) THEN Refused(Answer(400))
       ELSE IF poster.nil THEN Refused(Answer(503))
       ELSE /\ text' = TrimSpace(request.text)
            /\ pending' = request.media
            /\ pc' = IF request.media > 0 THEN "simple" ELSE "tweet"
            /\ status' = status
    /\ UNCHANGED <<frontend, request, response, persisted, uploads, poster, ctxDone,
                   slot, errs, initRef, appendErr, uploaded, upRet, tweetRet,
                   attempts, calls, posts, resolveVars, fileVars, bootVars,
                   authVars, lockVars, fnVars, vercelVars>>

Persisted(outcome) == [done |-> TRUE, outcome |-> outcome]
NotPersisted == [done |-> FALSE, outcome |-> ""]

\* what persistOAuth2TokenIfAvailable did with the token: nothing for an
\* empty token map, nothing when the access token cannot be extracted,
\* else the configuration saved or the save failed
PersistOutcome(c, token, now, ok) ==
    IF token = EmptyToken THEN "skipped"
    ELSE IF ~applyOAuth2TokenToConfig(c.X, token, now).ok THEN "extract_failed"
    ELSE IF ok THEN "saved" ELSE "save_failed"

\* the token map the client of the poster may hold after the calls of the
\* request: none unless the client was built with a client id and a token
HeldTokens(p) ==
    IF p.client.ClientID # <<>> THEN ClientTokens \cup {EmptyToken} ELSE {EmptyToken}

\* the JSON of the 200 response
Response(authMode, media) ==
    [ok |-> TRUE, auth_mode |-> authMode, media |-> media, media_count |-> Len(media)]
NoResponse == [ok |-> FALSE, auth_mode |-> "", media |-> <<>>, media_count |-> 0]

\* a handler that answers 500 when the token could not be extracted or
\* the configuration could not be saved
PersistFatal ==
    /\ pc = "persist"
    /\ IF frontend = "vercel"
       THEN /\ persisted' = Persisted("skipped")
            /\ UNCHANGED <<appCfg, files, inodes>>
       ELSE \E token \in HeldTokens(poster), now \in Clock, ok \in BOOLEAN :
              /\ PersistStep(token, now, ok)
              /\ persisted' = Persisted(PersistOutcome(appCfg, token, now, ok))
    /\ status' = IF persisted'.outcome \in {"extract_failed", "save_failed"}
                 THEN Answer(500) ELSE Answer(200)
    /\ response' = Response(poster.authMode, uploaded)
    /\ pc' = "done"
    /\ UNCHANGED <<frontend, request, uploads, poster, ctxDone, slot, text, pending,
                   errs, initRef, appendErr, uploaded, upRet, tweetRet, attempts,
                   calls, posts, env, bootPc, loads, writers, lastRead, renames,
                   loaded, resolveVars, authVars, lockVars, fnVars, vercelVars>>

\* after CreateTweet returned the post: a.persistOAuth2Token(poster), whose
\* failures are logged, then the 200 response
Persist ==
    /\ pc = "persist"
    /\ IF frontend = "vercel"
       THEN /\ persisted' = Persisted("skipped")
            /\ UNCHANGED <<appCfg, files, inodes>>
       ELSE \E token \in HeldTokens(poster), now \in Clock, ok \in BOOLEAN :
              /\ PersistStep(token, now, ok)
              /\ persisted' = Persisted(PersistOutcome(appCfg, token, now, ok))
    /\ status' = Answer(200)
    /\ response' = Response(poster.authMode, uploaded)
    /\ pc' = "done"
    /\ UNCHANGED <<frontend, request, uploads, poster, ctxDone, slot, text, pending,
                   errs, initRef, appendErr, uploaded, upRet, tweetRet, attempts,
                   calls, posts, env, bootPc, loads, writers, lastRead, renames,
                   loaded, resolveVars, authVars, lockVars, fnVars, vercelVars>>

\* ------------------------------------------------------- specifications

\* the texts a request may carry, as the handler and the CLI hand them to
\* CreateTweet: trimmed
RequestTexts == {<<>>, <<"h", "e", "l", "l", "o">>}

\* configurations that resolve to a client in each of the two modes
OAuth1Cfg == [ZeroAuth EXCEPT !.APIKey = <<"k">>, !.APISecret = <<"s">>,
                             !.AccessToken = <<"t">>, !.AccessTokenSecret = <<"u">>]
OAuth2Cfg == [ZeroAuth EXCEPT !.OAuth2AccessToken = <<"b">>]

\* a configuration whose OAuth2 token the client can refresh
OAuth2RefreshCfg ==
    [ZeroAuth EXCEPT !.OAuth2ClientID = <<"c">>, !.OAuth2AccessToken = <<"b">>,
                     !.OAuth2RefreshToken = <<"r">>, !.OAuth2ExpiresAt = 5]

NoRead == [done |-> FALSE, content |-> <<>>]

\* the variables of a component that is not running
IdlePipe ==
    /\ frontend = "local"
    /\ request = Request(<<>>, 0, FALSE)
    /\ response = NoResponse
    /\ persisted = NotPersisted
    /\ uploads = <<>>
    /\ poster = NilPoster
    /\ ctxDone = FALSE
    /\ pc = "done"
    /\ slot = 1
    /\ text = <<>>
    /\ pending = 0
    /\ errs = <<>>
    /\ initRef = EmptyRef
    /\ appendErr = ""
    /\ uploaded = <<>>
    /\ upRet = NoRet
    /\ tweetRet = NoTweetRet
    /\ status = 0
    /\ attempts = <<>>
    /\ calls = <<>>
    /\ posts = <<>>

IdleResolve ==
    /\ authCfg = ZeroAuth
    /\ resolved = Resolved(NilPoster, <<>>)

IdleFiles ==
    /\ files = [path |-> 0, tmp |-> 0]
    /\ inodes = <<>>
    /\ writers = [w \in Writers |-> Writer("done", NilConfig, 0, "")]
    /\ lastRead = NoRead
    /\ renames = <<>>
    /\ loaded = Loaded(NilConfig, FALSE, "", FALSE)

IdleBoot ==
    /\ appCfg = NilConfig
    /\ env = NoEnv
    /\ bootPc = "off"
    /\ loads = <<>>

Headers(authorization, xAPIToken) ==
    [Authorization |-> authorization, XAPIToken |-> xAPIToken]

IdleAuth ==
    /\ headers = Headers(<<>>, <<>>)
    /\ authStatus = 0

\* a.poster and a.posterErr, the error being <<>> for nil
Stored(p, err) == [poster |-> p, err |-> err]

\* the App as constructed: no poster, no error
ZeroStored == Stored(NilPoster, <<>>)

Refresher(rpc, ret) == [pc |-> rpc, ret |-> ret]
Getter(gpc, from, p, err, ret) ==
    [pc |-> gpc, from |-> from, poster |-> p, err |-> err, ret |-> ret]

IdleRefresher == Refresher("idle", NotResolved)
IdleGetter == Getter("idle", 1, NilPoster, <<>>, NotResolved)

\* no function was called
NoCall == [fn |-> "none"]

IdleFn ==
    /\ fnArg = NoCall
    /\ fnRet = NoCall

\* the package variables of the entrypoint before any request
NoHandle == [set |-> FALSE, err |-> <<>>, persistCfg |-> FALSE, configPath |-> <<>>]

IdleVercel ==
    /\ once = "new"
    /\ handle = NoHandle
    /\ reqs = <<>>
    /\ inits = 0

IdleLock ==
    /\ mu = [writer |-> FALSE, readers |-> 0]
    /\ stored = ZeroStored
    /\ refresher = IdleRefresher
    /\ getter = IdleGetter
    /\ resolutions = <<ZeroStored>>

\* A post request after getPoster and parseTweetRequest succeeded: a ready
\* poster, a trimmed text, up to MaxMedia inputs, one of them present.
Init ==
    /\ frontend = "local"
    /\ \E x \in {OAuth1Cfg, OAuth2RefreshCfg} :
         /\ poster = newPoster(x).poster
         /\ appCfg = Config(defaultServerAddr, <<"t">>, x)
    /\ files = [path |-> 1, tmp |-> 0]
    /\ inodes = <<Marshal(appCfg)>>
    /\ ctxDone = FALSE
    /\ text \in RequestTexts
    /\ pending \in 0..MaxMedia
    /\ text # <<>> \/ pending > 0
    /\ request = Request(text, pending, FALSE)
    /\ response = NoResponse
    /\ persisted = NotPersisted
    /\ uploads = <<>>
    /\ pc = IF pending > 0 THEN "simple" ELSE "tweet"
    /\ slot = 1
    /\ errs = <<>>
    /\ initRef = EmptyRef
    /\ appendErr = ""
    /\ uploaded = <<>>
    /\ upRet = NoRet
    /\ tweetRet = NoTweetRet
    /\ status = 0
    /\ attempts = <<>>
    /\ calls = <<>>
    /\ posts = <<>>
    /\ writers = [w \in Writers |-> Writer("done", NilConfig, 0, "")]
    /\ lastRead = NoRead
    /\ renames = <<>>
    /\ loaded = Loaded(NilConfig, FALSE, "", FALSE)
    /\ env = NoEnv
    /\ bootPc = "serve"
    /\ loads = <<>>
    /\ IdleResolve
    /\ IdleAuth
    /\ IdleLock
    /\ IdleFn
    /\ IdleVercel

Next ==
    \/ UploadSimple
    \/ ChunkedInitialize
    \/ ChunkedAppend
    \/ ChunkedFinalize
    \/ UploadV1
    \/ CreateTweetFirst
    \/ CreateTweetRetry
    \/ Persist
    \/ Cancel

Spec == Init /\ [][Next]_vars

\* ---- CreateTweet on its own: any text, any list of references

TweetTexts == {<<>>, <<" ">>, <<"a">>, <<" ", "a", " ">>, <<"h", "e", "l", "l", "o">>}

RefPool ==
    {MediaRef(id, key) : id \in {<<>>, <<" ">>, <<"7">>, <<" ", "7">>, <<"9">>},
                         key \in {<<>>, <<" ">>, <<"k">>}}

RefLists == UNION {[1..n -> RefPool] : n \in 0..MaxRefs}

InitTweet ==
    /\ frontend = "local"
    /\ request = Request(<<>>, 0, FALSE)
    /\ response = NoResponse
    /\ persisted = NotPersisted
    /\ uploads = <<>>
    /\ poster = newPoster(OAuth1Cfg).poster
    /\ ctxDone = FALSE
    /\ text \in TweetTexts
    /\ pending = 0
    /\ pc = "tweet"
    /\ slot = 1
    /\ errs = <<>>
    /\ initRef = EmptyRef
    /\ appendErr = ""
    /\ uploaded \in RefLists
    /\ upRet = NoRet
    /\ tweetRet = NoTweetRet
    /\ status = 0
    /\ attempts = <<>>
    /\ calls = <<>>
    /\ posts = <<>>
    /\ IdleResolve
    /\ IdleFiles
    /\ IdleBoot
    /\ IdleAuth
    /\ IdleLock
    /\ IdleFn
    /\ IdleVercel

NextTweet ==
    \/ CreateTweetFirst
    \/ CreateTweetRetry
    \/ Cancel

SpecTweet == InitTweet /\ [][NextTweet]_vars

\* ---- newPoster on every combination of blank and set credential fields

FieldValues == {<<>>, <<" ">>, <<"k">>}

AuthCfgs ==
    {[ZeroAuth EXCEPT !.APIKey = a, !.APISecret = b, !.AccessToken = c,
                      !.AccessTokenSecret = d, !.OAuth2AccessToken = t,
                      !.OAuth2ClientID = i, !.OAuth2Scope = sc] :
        a \in FieldValues, b \in FieldValues, c \in FieldValues, d \in FieldValues,
        t \in FieldValues, i \in {<<>>, <<"c">>},
        sc \in {<<>>, << <<"a">>, <<"a">>, <<"b">> >>}}

InitResolve ==
    /\ authCfg \in AuthCfgs
    /\ resolved = NotResolved
    /\ IdlePipe
    /\ IdleFiles
    /\ IdleBoot
    /\ IdleAuth
    /\ IdleLock
    /\ IdleFn
    /\ IdleVercel

NextResolve == Resolve

SpecResolve == InitResolve /\ [][NextResolve]_vars

\* ---- concurrent saveConfig calls on one path, and readers of the path

InitialCfg == Config(defaultServerAddr, <<"t">>, ZeroAuth)

\* what the savers write: a login's token, and the token after a refresh
SaveCfgs ==
    {Config(defaultServerAddr, <<"t">>, OAuth2Cfg),
     Config(defaultServerAddr, <<"t">>,
            [OAuth2Cfg EXCEPT !.OAuth2AccessToken = <<"n">>,
                              !.OAuth2RefreshToken = <<"r">>,
                              !.OAuth2ExpiresAt = 5])}

InitSave ==
    /\ files = [path |-> 1, tmp |-> 0]
    /\ inodes = <<Marshal(InitialCfg)>>
    /\ writers \in [Writers -> {Writer("open", c, 0, "") : c \in SaveCfgs}]
    /\ lastRead = NoRead
    /\ renames = <<>>
    /\ loaded = Loaded(NilConfig, FALSE, "", FALSE)
    /\ IdlePipe
    /\ IdleResolve
    /\ IdleBoot
    /\ IdleAuth
    /\ IdleLock
    /\ IdleFn
    /\ IdleVercel

NextSave ==
    \/ \E w \in Writers : SaveOpen(w)
    \/ \E w \in Writers : SaveWrite(w)
    \/ \E w \in Writers : SaveRename(w)
    \/ ReadPath

SpecSave == InitSave /\ [][NextSave]_vars

\* ---- saveConfig(path, cfg) followed by loadOrInitConfig(path)

RoundTripCfgs ==
    {Config(addr, tok,
            [ZeroAuth EXCEPT !.APIKey = k, !.OAuth2Scope = sc,
                             !.OAuth2AccessToken = at, !.OAuth2ExpiresAt = ex]) :
        addr \in {<<>>, <<" ">>, defaultServerAddr, <<":", "9">>},
        tok \in {<<>>, <<" ">>, <<"t">>},
        k \in {<<>>, <<"k">>},
        sc \in {<<>>, << <<"a">> >>},
        at \in {<<>>, <<"b">>},
        ex \in {0, 5}}

InitRoundTrip ==
    /\ files \in {[path |-> 0, tmp |-> 0], [path |-> 1, tmp |-> 0]}
    /\ inodes = <<Marshal(InitialCfg)>>
    /\ writers \in {[w \in Writers |-> IF w = 1 THEN Writer("open", c, 0, "")
                                       ELSE Writer("done", NilConfig, 0, "")] :
                      c \in RoundTripCfgs}
    /\ lastRead = NoRead
    /\ renames = <<>>
    /\ loaded = NotLoaded
    /\ IdlePipe
    /\ IdleResolve
    /\ IdleBoot
    /\ IdleAuth
    /\ IdleLock
    /\ IdleFn
    /\ IdleVercel

NextRoundTrip ==
    \/ SaveOpen(1)
    \/ SaveWrite(1)
    \/ SaveRename(1)
    \/ Load

SpecRoundTrip == InitRoundTrip /\ [][NextRoundTrip]_vars

\* ---- loadOrInitConfig called again and again on one file

\* what the file may hold before the first call
LoadFiles ==
    {Marshal(Config(addr, tok, x)) :
        addr \in {<<>>, <<" ">>, defaultServerAddr, <<":", "9">>},
        tok \in {<<>>, <<" ">>, <<"t">>},
        x \in {ZeroAuth, OAuth2Cfg}}
    \cup {<<>>, Member("addr", defaultServerAddr)}

InitLoad ==
    /\ \/ files = [path |-> 0, tmp |-> 0] /\ inodes = <<>>
       \/ files = [path |-> 1, tmp |-> 0] /\ \E c \in LoadFiles : inodes = <<c>>
    /\ writers = [w \in Writers |-> Writer("done", NilConfig, 0, "")]
    /\ lastRead = NoRead
    /\ renames = <<>>
    /\ loaded = Loaded(NilConfig, FALSE, "", FALSE)
    /\ appCfg = NilConfig
    /\ env = NoEnv
    /\ bootPc = "load"
    /\ loads = <<>>
    /\ IdlePipe
    /\ IdleResolve
    /\ IdleAuth
    /\ IdleLock
    /\ IdleFn
    /\ IdleVercel

NextLoad == LoadOrInit

SpecLoad == InitLoad /\ [][NextLoad]_vars

\* ---- processes started one after the other on one configuration file

\* what the file may hold before the first process starts
BootFiles ==
    {<<>>,
     Member("addr", defaultServerAddr),
     Marshal(Config(defaultServerAddr, <<>>, ZeroAuth)),
     Marshal(Config(defaultServerAddr, <<"t">>, OAuth1Cfg)),
     Marshal(Config(defaultServerAddr, <<"t">>, OAuth2RefreshCfg))}

InitBoot ==
    /\ \/ files = [path |-> 0, tmp |-> 0] /\ inodes = <<>>
       \/ files = [path |-> 1, tmp |-> 0] /\ \E c \in BootFiles : inodes = <<c>>
    /\ writers = [w \in Writers |-> Writer("done", NilConfig, 0, "")]
    /\ lastRead = NoRead
    /\ renames = <<>>
    /\ loaded = Loaded(NilConfig, FALSE, "", FALSE)
    /\ appCfg = NilConfig
    /\ env \in Envs
    /\ bootPc = "load"
    /\ loads = <<>>
    /\ IdlePipe
    /\ IdleResolve
    /\ IdleAuth
    /\ IdleLock
    /\ IdleFn
    /\ IdleVercel

NextBoot ==
    \/ BootLoad
    \/ BootOverride
    \/ FirstBootSave
    \/ ServePersist
    \/ CliTweet
    \/ CliLogin
    \/ Restart

SpecBoot == InitBoot /\ [][NextBoot]_vars

\* ---- the API token check on every pair of headers

AuthorizationValues ==
    {<<>>,
     BearerPrefix \o <<"t">>,
     BearerPrefix \o <<"x">>,
     <<"b", "e", "a", "r", "e", "r", " ", "t">>,
     <<" ">> \o BearerPrefix \o <<" ", "t", " ">>,
     BearerPrefix,
     <<"B", "a", "s", "i", "c", " ", "t">>,
     <<"t">>}

XAPITokenValues == {<<>>, <<"t">>, <<"x">>, <<" ", "t", " ">>}

\* the configured API token: not set, set, set with a leading space in the
\* file
APITokens == {<<>>, <<"t">>, <<" ", "t">>}

InitAuth ==
    /\ headers \in {Headers(a, x) : a \in AuthorizationValues, x \in XAPITokenValues}
    /\ authStatus = 0
    /\ appCfg \in {Config(defaultServerAddr, tok, ZeroAuth) : tok \in APITokens}
    /\ env = NoEnv
    /\ bootPc = "serve"
    /\ loads = <<>>
    /\ IdlePipe
    /\ IdleResolve
    /\ IdleFiles
    /\ IdleLock
    /\ IdleFn
    /\ IdleVercel

NextAuth == Authenticate

SpecAuth == InitAuth /\ [][NextAuth]_vars

\* ------------------------------------------------------------- properties

StrategyIndex(name) == CHOOSE i \in 1..Len(StrategyOrder) : StrategyOrder[i] = name

\* C1: UploadMedia attempts its strategies in the fixed order simple upload
\* with field "media", simple upload with field "media_data", chunked
\* upload, legacy v1 upload; a strategy succeeds exactly when it yields a
\* reference with a non-empty id or key; the first success ends the upload
\* with that reference, whatever failures were recorded before, and no
\* strategy and no upstream call follows it.
C1_FixedOrderFirstSuccessEnds ==
    /\ Len(attempts) <= Len(StrategyOrder)
    /\ \A i \in 1..Len(attempts) :
         /\ attempts[i].strategy = StrategyOrder[i]
         /\ attempts[i].ok <=> NonEmptyRef(attempts[i].ref)
         /\ attempts[i].ok =>
              /\ i = Len(attempts)
              /\ upRet.done /\ upRet.ok /\ upRet.ref = attempts[i].ref
              /\ calls[Len(calls)].strategy = attempts[i].strategy
    /\ \A i \in 1..Len(calls) :
         /\ \A j \in i..Len(calls) :
              StrategyIndex(calls[i].strategy) <= StrategyIndex(calls[j].strategy)
         /\ calls[i].strategy = "simple:media" =>
              calls[i].op = "Media.Upload" /\ calls[i].field = "media"
         /\ calls[i].strategy = "simple:media_data" =>
              calls[i].op = "Media.Upload" /\ calls[i].field = "media_data"
    /\ upRet.done /\ upRet.ok =>
         Len(attempts) > 0 /\ attempts[Len(attempts)].ok

\* C1 witness: the two simple uploads failed and the chunked upload ended
\* the upload with its reference.
C1_Witness ==
    /\ upRet.done /\ upRet.ok
    /\ Len(attempts) = 3
    /\ attempts[3].strategy = "chunked"
    /\ Len(errs) = 2
    /\ upRet.ref.ID # <<>>

\* C2: UploadMedia returns an error exactly when every attempted strategy
\* failed, and the message then is the prefix followed by one reason per
\* attempted strategy (an upload without identifier included), in the order
\* of the attempts, separated by " | ".
C2_AggregatedError ==
    upRet.done =>
      /\ ~upRet.ok <=> (\A i \in 1..Len(attempts) : ~attempts[i].ok)
      /\ ~upRet.ok =>
           /\ Len(attempts) = IF ClientAuth(poster) THEN 4 ELSE 3
           /\ Len(upRet.msg) = 2 * Len(attempts)
           /\ upRet.msg[1] = UploadFailedPrefix
           /\ \A i \in 1..Len(attempts) :
                /\ attempts[i].reason # ""
                /\ upRet.msg[2 * i] = attempts[i].reason
                /\ i > 1 => upRet.msg[2 * i - 1] = " | "

\* C2 witness: all four strategies failed, the second one by answering
\* without an identifier.
C2_Witness ==
    /\ upRet.done /\ ~upRet.ok
    /\ Len(attempts) = 4
    /\ attempts[1].reason = "network error"
    /\ attempts[2].reason = NoIdentifier

\* C3: once the context is cancelled during UploadMedia no further strategy
\* is started and the upload returns the cancellation error, not the
\* aggregated one; CreateTweet does not resubmit after a cancelled first
\* submission.
C3_CancelStopsChain ==
    /\ \A j \in 2..Len(calls) :
         (calls[j].ctxDone /\ ~calls[1].ctxDone) =>
            calls[j].strategy = calls[j - 1].strategy
    /\ (upRet.done /\ ~upRet.ok /\ ctxDone) => upRet.msg = <<CtxErr>>
    /\ Len(posts) = 2 => posts[1].reason # CtxErr

HasKey(media) == \E i \in 1..Len(media) : TrimSpace(media[i].MediaKey) # <<>>
HasID(media) == \E i \in 1..Len(media) : TrimSpace(media[i].ID) # <<>>

\* C4: CreateTweet submits at most twice; it has submitted a second time,
\* with media.media_keys in place of media.media_ids and the same text,
\* exactly when the first submission failed and some reference carries a
\* media key (non-empty once trimmed); otherwise the result of the first
\* submission is returned after that one submission.
C4_RetryOnceWithKeys ==
    /\ Len(posts) <= 2
    /\ Len(posts) = 2 =>
         /\ ~posts[1].ok /\ HasKey(uploaded)
         /\ posts[2].body.mediaField = "media_keys"
         /\ SeqRange(posts[2].body.list) =
              {TrimSpace(uploaded[i].MediaKey) : i \in 1..Len(uploaded)} \ {<<>>}
         /\ posts[2].body.hasText = posts[1].body.hasText
         /\ posts[2].body.text = posts[1].body.text
    /\ tweetRet.done =>
         /\ Len(posts) >= 1
         /\ (Len(posts) = 2) <=> (~posts[1].ok /\ HasKey(uploaded))
         /\ tweetRet.ok = posts[Len(posts)].ok
         /\ tweetRet.reason = posts[Len(posts)].reason

\* C4 witness: a failed first submission with media ids was followed by the
\* submission with media keys.
C4_Witness ==
    /\ tweetRet.done
    /\ Len(posts) = 2
    /\ posts[1].body.mediaField = "media_ids"
    /\ posts[2].ok

\* the position of the first reference whose trimmed id is id
FirstWithID(media, id) ==
    CHOOSE i \in 1..Len(media) :
        /\ TrimSpace(media[i].ID) = id
        /\ \A j \in 1..(i - 1) : TrimSpace(media[j].ID) # id

\* C5: the body of the first submission holds the key text exactly when the
\* text is non-blank, and the key media exactly when some reference has a
\* non-blank id; media.media_ids then lists the trimmed non-empty ids once
\* each, in the order of their first occurrence; text "hello" without media
\* gives a body of text only.
C5_FirstBody ==
    Len(posts) >= 1 =>
      LET b == posts[1].body
      IN /\ b.hasText <=> TrimSpace(text) # <<>>
         /\ b.hasText => b.text = TrimSpace(text)
         /\ b.mediaField = (IF HasID(uploaded) THEN "media_ids" ELSE "none")
         /\ SeqRange(b.list) =
              {TrimSpace(uploaded[i].ID) : i \in 1..Len(uploaded)} \ {<<>>}
         /\ \A j \in 1..Len(b.list) : \A k \in (j + 1)..Len(b.list) :
              /\ b.list[j] # b.list[k]
              /\ FirstWithID(uploaded, b.list[j]) < FirstWithID(uploaded, b.list[k])
         /\ (text = <<"h", "e", "l", "l", "o">> /\ uploaded = <<>>) =>
              b = Body(TRUE, <<"h", "e", "l", "l", "o">>, "none", <<>>)

\* C5 witness: two references with the same id once trimmed, sent once,
\* with a text.
C5_Witness ==
    /\ Len(posts) >= 1
    /\ Len(uploaded) = 2
    /\ uploaded[1].ID # uploaded[2].ID
    /\ posts[1].body.list = << <<"7">> >>
    /\ posts[1].body.hasText

SchemeANames == <<"api_key", "api_secret", "access_token", "access_token_secret">>

SchemeAValues(cfg) ==
    <<cfg.APIKey, cfg.APISecret, cfg.AccessToken, cfg.AccessTokenSecret>>

\* the scheme-A fields of cfg that are set (non-blank)
SchemeASet(cfg) == {i \in 1..4 : ~Blank(SchemeAValues(cfg)[i])}

SchemeAIndex(name) == CHOOSE i \in 1..4 : SchemeANames[i] = name

\* C6: with 1, 2 or 3 of the four scheme-A fields non-blank newPoster fails
\* and its error names exactly the blank fields, in the order api_key,
\* api_secret, access_token, access_token_secret, whatever the scheme-B
\* fields hold.
C6_IncompleteNamesBlankFields ==
    (resolved.done /\ Cardinality(SchemeASet(authCfg)) \in 1..3) =>
      LET n == 4 - Cardinality(SchemeASet(authCfg))
          err == resolved.err
      IN /\ resolved.poster.nil
         /\ Len(err) = 2 * n
         /\ err[1] = IncompletePrefix
         /\ \A j \in 1..n :
              /\ err[2 * j] \in SeqRange(SchemeANames)
              /\ SchemeAIndex(err[2 * j]) \notin SchemeASet(authCfg)
              /\ j > 1 => /\ err[2 * j - 1] = ", "
                          /\ SchemeAIndex(err[2 * j - 2]) < SchemeAIndex(err[2 * j])

\* C6 witness: two scheme-A fields set, two blank, and a scheme-B access
\* token present.
C6_Witness ==
    /\ resolved.done
    /\ SchemeASet(authCfg) = {1, 3}
    /\ ~Blank(authCfg.OAuth2AccessToken)
    /\ resolved.err = <<IncompletePrefix, "api_secret", ", ", "access_token_secret">>

\* C7: with the four scheme-A fields blank and the scheme-B access token
\* blank newPoster returns no client and the missing-credentials error,
\* whatever the other scheme-B fields hold.
C7_MissingCredentials ==
    (resolved.done /\ SchemeASet(authCfg) = {} /\ Blank(authCfg.OAuth2AccessToken)) =>
      /\ resolved.poster.nil
      /\ resolved.err = <<MissingAuthMsg>>

\* C7 witness: only whitespace in a scheme-A field and in the access token,
\* a client id set.
C7_Witness ==
    /\ resolved.done
    /\ authCfg.APIKey = <<" ">>
    /\ authCfg.OAuth2AccessToken = <<" ">>
    /\ authCfg.OAuth2ClientID # <<>>
    /\ SchemeASet(authCfg) = {}
    /\ resolved.poster.nil

\* C8: first match decides the mode: four non-blank scheme-A fields give a
\* client tagged oauth1 even with a scheme-B access token set; a client is
\* tagged oauth2_user_token only when the four scheme-A fields are blank
\* and the scheme-B access token is not; a returned client carries one of
\* the two tags.
C8_FirstMatchDecidesMode ==
    resolved.done =>
      /\ SchemeASet(authCfg) = 1..4 =>
           /\ ~resolved.poster.nil
           /\ resolved.poster.authMode = ModeOAuth1
           /\ resolved.err = <<>>
      /\ (~resolved.poster.nil /\ resolved.poster.authMode = ModeOAuth2) =>
           /\ SchemeASet(authCfg) = {}
           /\ ~Blank(authCfg.OAuth2AccessToken)
      /\ ~resolved.poster.nil =>
           /\ resolved.poster.authMode \in {ModeOAuth1, ModeOAuth2}
           /\ resolved.err = <<>>

\* C8 witness: both schemes complete, resolved to oauth1.
C8_Witness ==
    /\ resolved.done
    /\ SchemeASet(authCfg) = 1..4
    /\ ~Blank(authCfg.OAuth2AccessToken)
    /\ resolved.poster.authMode = ModeOAuth1

\* the documents written in full by one save, and the one there before
CompleteDocs ==
    {Marshal(writers[w].cfg) : w \in Writers} \cup {Marshal(InitialCfg)}

AllSaved == \A w \in Writers : writers[w].pc = "done"

\* C9: under any interleaving of saveConfig calls on one path with readers
\* of the path, every read returns a complete document written by one save
\* (never an empty or truncated one), and the final content is the document
\* of the save whose rename happened last.
C9_ReadersSeeCompleteDocuments ==
    /\ lastRead.done => lastRead.content \in CompleteDocs
    /\ (AllSaved /\ renames # <<>>) =>
         inodes[files.path] = Marshal(writers[renames[Len(renames)]].cfg)

\* C10 as stated: for every configuration, saveConfig then loadOrInitConfig
\* returns the configuration saved, equal in every field, and isFirstBoot =
\* false.
C10_RoundTripEveryConfig ==
    loaded.done =>
      /\ loaded.err = ""
      /\ loaded.cfg = writers[1].cfg
      /\ ~loaded.firstBoot

\* C10 amended: for every configuration whose address and API token are
\* non-blank, saveConfig then loadOrInitConfig returns the configuration
\* saved, equal in every field, and isFirstBoot = false.
C10_RoundTripCompleteConfig ==
    (loaded.done /\ ~Blank(writers[1].cfg.Addr) /\ ~Blank(writers[1].cfg.APIToken)) =>
      /\ loaded.err = ""
      /\ loaded.cfg = writers[1].cfg
      /\ ~loaded.firstBoot

\* C10 witness: a configuration with an address of its own, a scope list
\* and an expiry came back.
C10_Witness ==
    /\ loaded.done
    /\ writers[1].cfg.Addr = <<":", "9">>
    /\ writers[1].cfg.APIToken = <<"t">>
    /\ writers[1].cfg.X.OAuth2Scope # <<>>
    /\ writers[1].cfg.X.OAuth2ExpiresAt = 5
    /\ loaded.cfg = writers[1].cfg

\* the configuration the file held before the first loadOrInitConfig call
InitialFileCfg == Unmarshal(inodes[1], DefaultConfig)

\* the file was there before the first call, and could be decoded
InitiallyLoadable ==
    /\ Len(inodes) >= 1
    /\ Len(loads) >= 1 => ~loads[1].absent
    /\ inodes[1] = <<>> \/ ValidJSON(inodes[1])

InitiallyComplete ==
    /\ InitiallyLoadable
    /\ inodes[1] # <<>>
    /\ ~Blank(InitialFileCfg.Addr)
    /\ ~Blank(InitialFileCfg.APIToken)

\* C11: loadOrInitConfig called repeatedly on a file whose address and API
\* token are non-blank returns the same configuration each time and writes
\* neither the file nor its temp file; a file with a blank address or token
\* is backfilled and written once, by the first call, and the later calls
\* return what the first returned and write nothing.
C11_LoadIdempotent ==
    /\ InitiallyComplete =>
         /\ files = [path |-> 1, tmp |-> 0]
         /\ Len(inodes) = 1
         /\ \A i \in 1..Len(loads) :
              /\ loads[i].ret.err = ""
              /\ ~loads[i].ret.saved
              /\ loads[i].ret.cfg = InitialFileCfg
    /\ (InitiallyLoadable /\ ~InitiallyComplete /\ Len(loads) >= 1) =>
         /\ files = [path |-> 2, tmp |-> 0]
         /\ Len(inodes) = 2
         /\ inodes[2] = Marshal(loads[1].ret.cfg)
         /\ loads[1].ret.saved
         /\ ~Blank(loads[1].ret.cfg.Addr) /\ ~Blank(loads[1].ret.cfg.APIToken)
         /\ \A i \in 2..Len(loads) :
              /\ loads[i].ret.err = ""
              /\ ~loads[i].ret.saved
              /\ loads[i].ret.cfg = loads[1].ret.cfg

\* C11 witness: three calls on a file with a blank token; the first one
\* generated a token and wrote the file, the others read it back.
C11_Witness ==
    /\ Len(loads) = 3
    /\ InitiallyLoadable
    /\ Blank(InitialFileCfg.APIToken)
    /\ loads[1].ret.saved
    /\ loads[3].ret.cfg.APIToken \in FreshTokens
    /\ Len(inodes) = 2

\* loadOrInitConfig has returned a configuration to the running process
LoadedOK ==
    /\ Len(loads) >= 1
    /\ bootPc # "load"
    /\ LastLoad.ret.err = ""

\* the configuration persisted at path
FileCfg == Unmarshal(inodes[files.path], NilConfig)

\* C12: once loadOrInitConfig succeeded (file absent, empty, or present
\* with a blank token), whatever environment overrides, token persistence
\* and saves follow, the api_token is non-blank in memory and in the
\* persisted file; an absent file is reported as isFirstBoot = true and is
\* persisted with a freshly generated token.
C12_APITokenNonBlank ==
    /\ LoadedOK =>
         /\ ~Blank(appCfg.APIToken)
         /\ files.path # 0
         /\ ValidJSON(inodes[files.path])
         /\ ~Blank(FileCfg.APIToken)
    /\ \A i \in 1..Len(loads) :
         /\ loads[i].absent <=> loads[i].ret.firstBoot
         /\ loads[i].absent =>
              /\ loads[i].ret.err = ""
              /\ loads[i].ret.saved
              /\ loads[i].ret.cfg.APIToken \in FreshTokens
    /\ (bootPc = "override" /\ LastLoad.absent) =>
         /\ FileCfg.APIToken = LastLoad.ret.cfg.APIToken
         /\ FileCfg.APIToken \in FreshTokens

\* C12 witness: the first process started without a file, which got a
\* generated token; the server started after it is serving and has
\* persisted a refreshed OAuth2 token next to that API token.
C12_Witness ==
    /\ LoadedOK
    /\ Len(loads) = 2
    /\ loads[1].absent
    /\ bootPc = "serve"
    /\ appCfg.X.OAuth2AccessToken = <<"n">>
    /\ FileCfg.X.OAuth2AccessToken = <<"n">>
    /\ FileCfg.APIToken \in FreshTokens

\* the request carries the token tok in Authorization: Bearer
BearerCarries(tok) == headers.Authorization = BearerPrefix \o tok

\* the request carries the token tok in X-API-Token
XAPITokenCarries(tok) == headers.XAPIToken = tok

\* the value of a Bearer credential in Authorization, <<>> when the header
\* holds none
BearerValue ==
    LET a == TrimSpace(headers.Authorization)
    IN IF Len(a) > 7 /\ EqualFoldChars(SubSeq(a, 1, 7), BearerPrefix)
       THEN TrimSpace(SubSeq(a, 8, Len(a))) ELSE <<>>

HasBearer == Len(TrimSpace(headers.Authorization)) > 7 /\ BearerValue # <<>>

RawTexts == {<<>>, <<" ">>, <<"h", "e", "l", "l", "o">>}

Frontends == {"local", "vercel", "cli"}

\* the requests a caller may send: a text, a number of media items up to
\* one more than the handler accepts, well-formed or not
Requests ==
    {Request(txt, n, m) : txt \in RawTexts,
                          n \in (0..MaxMedia) \cup {maxMediaCount + 1},
                          m \in BOOLEAN}

InitRequest ==
    /\ frontend \in Frontends
    /\ \E x \in {OAuth1Cfg, OAuth2RefreshCfg, ZeroAuth} :
         /\ poster = newPoster(x).poster
         /\ appCfg = Config(defaultServerAddr, <<"t">>, x)
    /\ files = [path |-> 1, tmp |-> 0]
    /\ inodes = <<Marshal(appCfg)>>
    /\ request \in Requests
    /\ ctxDone = FALSE
    /\ text = <<>>
    /\ pending = 0
    /\ response = NoResponse
    /\ persisted = NotPersisted
    /\ uploads = <<>>
    /\ pc = "start"
    /\ slot = 1
    /\ errs = <<>>
    /\ initRef = EmptyRef
    /\ appendErr = ""
    /\ uploaded = <<>>
    /\ upRet = NoRet
    /\ tweetRet = NoTweetRet
    /\ status = 0
    /\ attempts = <<>>
    /\ calls = <<>>
    /\ posts = <<>>
    /\ writers = [w \in Writers |-> Writer("done", NilConfig, 0, "")]
    /\ lastRead = NoRead
    /\ renames = <<>>
    /\ loaded = Loaded(NilConfig, FALSE, "", FALSE)
    /\ env = NoEnv
    /\ bootPc = "serve"
    /\ loads = <<>>
    /\ IdleResolve
    /\ IdleAuth
    /\ IdleLock
    /\ IdleFn
    /\ IdleVercel

NextRequest ==
    \/ HandleStart
    \/ UploadSimple
    \/ ChunkedInitialize
    \/ ChunkedAppend
    \/ ChunkedFinalize
    \/ UploadV1
    \/ CreateTweetFirst
    \/ CreateTweetRetry
    \/ Persist
    \/ Cancel

SpecRequest == InitRequest /\ [][NextRequest]_vars

\* C14: the handler uploads the media items one after the other in the
\* order of the request, and submits the post only after every upload
\* succeeded: only the last recorded upload can have failed, and a failed
\* upload ends the request with 502 and no post; a failed post gives 502, a
\* client that is not ready 503, an invalid request 400; the 200 response
\* lists the references of the uploads in input order, and media_count is
\* their number.
C14_UploadsInOrderThenPost ==
    /\ Len(uploads) <= request.media
    /\ \A i \in 1..Len(uploads) :
         /\ uploads[i].input = i
         /\ i < Len(uploads) => uploads[i].ok
    /\ (uploads # <<>> /\ ~uploads[Len(uploads)].ok) =>
         /\ pc = "done"
         /\ status = Answer(502)
         /\ posts = <<>>
         /\ ~tweetRet.done
    /\ posts # <<>> =>
         /\ Len(uploads) = request.media
         /\ \A i \in 1..Len(uploads) : uploads[i].ok
    /\ pc = "done" =>
         /\ poster.nil => status = Answer(503) /\ uploads = <<>> /\ posts = <<>>
         /\ (~poster.nil /\ InvalidRequest(request)) =>
              status = Answer(400) /\ uploads = <<>> /\ posts = <<>>
         /\ (tweetRet.done /\ ~tweetRet.ok) => status = Answer(502)
         /\ status = Answer(200) <=> (tweetRet.done /\ tweetRet.ok)
         /\ status = Answer(200) =>
              /\ response.ok
              /\ response.media_count = request.media
              /\ Len(response.media) = response.media_count
              /\ \A i \in 1..Len(response.media) :
                   response.media[i] = uploads[i].ref

\* C14 witness: the second of two uploads failed after the first one
\* succeeded, and the HTTP request ended with 502.
C14_Witness ==
    /\ frontend = "local"
    /\ pc = "done"
    /\ request.media = 2
    /\ Len(uploads) = 2
    /\ uploads[1].ok
    /\ ~uploads[2].ok
    /\ status = 502

\* C15: what becomes of the refreshed token never changes the outcome of
\* the request. Once the post was submitted successfully the request ends
\* with 200 (the CLI command with exit status 0), whether the token was
\* saved, could not be extracted, could not be saved or was not looked at;
\* and the token is looked at only after the post succeeded: before that,
\* and after a failed upload or post, nothing was persisted and the
\* configuration file is the one the request started with.
C15_PersistenceNeverChangesOutcome ==
    /\ persisted.done =>
         /\ tweetRet.done /\ tweetRet.ok
         /\ \A i \in 1..Len(uploads) : uploads[i].ok
         /\ pc = "done"
         /\ status = Answer(200)
         /\ response.ok
         /\ persisted.outcome \in {"skipped", "extract_failed", "saved", "save_failed"}
    /\ (pc = "done" /\ tweetRet.done /\ tweetRet.ok) =>
         persisted.done /\ status = Answer(200)
    /\ ~persisted.done =>
         /\ appCfg.X \in {OAuth1Cfg, OAuth2RefreshCfg, ZeroAuth}
         /\ files = [path |-> 1, tmp |-> 0]
         /\ inodes = <<Marshal(appCfg)>>
    /\ (pc = "done" /\ status # Answer(200)) => ~persisted.done

\* C15 witness: the post succeeded, saving the refreshed token failed, and
\* the HTTP response is 200.
C15_Witness ==
    /\ frontend = "local"
    /\ pc = "done"
    /\ persisted = Persisted("save_failed")
    /\ tweetRet.ok
    /\ status = 200
    /\ response.ok

\* ---- getPoster next to refreshPoster: App.mu, App.poster, App.posterErr

NotReadyMsg == "x client is not ready"

\* what getPoster returns when it sees the stored pair st
PosterView(st) ==
    IF st.poster.nil
    THEN Resolved(NilPoster, IF st.err # <<>> THEN st.err ELSE <<NotReadyMsg>>)
    ELSE Resolved(st.poster, <<>>)

PartialOAuth1Cfg == [ZeroAuth EXCEPT !.APIKey = <<"k">>]

\* the credentials a.cfg.X may hold when refreshPoster runs
LockCfgs == {ZeroAuth, PartialOAuth1Cfg, OAuth1Cfg, OAuth2Cfg}

\* a.mu.Lock() returns: no reader and no writer holds the mutex
CanLock == ~mu.writer /\ mu.readers = 0

\* a read lock that does not wait for the writer
CanRLockAlways == TRUE

\* a.mu.RLock() returns: no writer holds the mutex
CanRLock == ~mu.writer

LockStep(mu2, stored2, refresher2, getter2, resolutions2, authCfg2) ==
    /\ mu' = mu2
    /\ stored' = stored2
    /\ refresher' = refresher2
    /\ getter' = getter2
    /\ resolutions' = resolutions2
    /\ authCfg' = authCfg2
    /\ UNCHANGED <<pipeVars, resolved, fileVars, bootVars, authVars, fnVars, vercelVars>>

\* refreshPoster: a.mu.Lock()
RefreshLock ==
    /\ refresher.pc = "idle"
    /\ Len(resolutions) <= MaxRefreshes
    /\ CanLock
    /\ LockStep([mu EXCEPT !.writer = TRUE], stored, Refresher("resolve", NotResolved),
                getter, resolutions, authCfg)

\* poster, err := newPoster(a.cfg.X)
RefreshResolve ==
    /\ refresher.pc = "resolve"
    /\ LockStep(mu, stored, Refresher("setPoster", newPoster(authCfg)), getter,
                resolutions, authCfg)

\* a.poster = poster
RefreshSetPoster ==
    /\ refresher.pc = "setPoster"
    /\ LockStep(mu, [stored EXCEPT !.poster = refresher.ret.poster],
                [refresher EXCEPT !.pc = "setErr"], getter, resolutions, authCfg)

\* a.posterErr = err
RefreshSetErr ==
    /\ refresher.pc = "setErr"
    /\ LockStep(mu, [stored EXCEPT !.err = refresher.ret.err],
                [refresher EXCEPT !.pc = "unlock"], getter, resolutions, authCfg)

\* the deferred a.mu.Unlock(): the resolution is complete
RefreshUnlock ==
    /\ refresher.pc = "unlock"
    /\ LockStep([mu EXCEPT !.writer = FALSE], stored, IdleRefresher, getter,
                Append(resolutions, stored), authCfg)

\* a.cfg.X is replaced under the write lock (persistOAuth2Token)
Reconfigure ==
    /\ CanLock
    /\ \E x \in LockCfgs \ {authCfg} :
         LockStep(mu, stored, refresher, getter, resolutions, x)

\* getPoster: a.mu.RLock()
GetRLock ==
    /\ getter.pc = "idle"
    /\ CanRLock
    /\ LockStep([mu EXCEPT !.readers = @ + 1], stored, refresher,
                Getter("readPoster", Len(resolutions), NilPoster, <<>>, NotResolved),
                resolutions, authCfg)

\* if a.poster == nil
GetReadPoster ==
    /\ getter.pc = "readPoster"
    /\ LockStep(mu, stored, refresher,
                [getter EXCEPT !.poster = stored.poster,
                               !.pc = IF stored.poster.nil THEN "readErr" ELSE "return"],
                resolutions, authCfg)

\* if a.posterErr != nil
GetReadErr ==
    /\ getter.pc = "readErr"
    /\ LockStep(mu, stored, refresher,
                [getter EXCEPT !.err = stored.err, !.pc = "return"],
                resolutions, authCfg)

\* the return statement and the deferred a.mu.RUnlock()
GetReturn ==
    /\ getter.pc = "return"
    /\ LockStep([mu EXCEPT !.readers = @ - 1], stored, refresher,
                [getter EXCEPT !.pc = "idle",
                               !.ret = PosterView(Stored(getter.poster, getter.err))],
                resolutions, authCfg)

InitRefresh ==
    /\ IdlePipe
    /\ IdleFiles
    /\ IdleBoot
    /\ IdleAuth
    /\ IdleLock
    /\ IdleFn
    /\ IdleVercel
    /\ authCfg \in LockCfgs
    /\ resolved = Resolved(NilPoster, <<>>)

NextRefresh ==
    \/ RefreshLock
    \/ RefreshResolve
    \/ RefreshSetPoster
    \/ RefreshSetErr
    \/ RefreshUnlock
    \/ Reconfigure
    \/ GetRLock
    \/ GetReadPoster
    \/ GetReadErr
    \/ GetReturn

SpecRefresh == InitRefresh /\ [][NextRefresh]_vars

\* C16: what a getPoster call returns is what it would return on the
\* complete pair stored by one resolution, the one in place when it took
\* the read lock or a later one, never a poster of one resolution with the
\* error of another; and once refreshPoster has run, whenever no
\* refreshPoster holds the lock, exactly one of the stored client and the
\* stored error is non-nil.
C16_GetPosterSeesCompletePair ==
    /\ (getter.pc = "idle" /\ getter.ret.done) =>
         \E k \in getter.from..Len(resolutions) :
            getter.ret = PosterView(resolutions[k])
    /\ (Len(resolutions) > 1 /\ ~mu.writer) =>
         /\ stored = resolutions[Len(resolutions)]
         /\ stored.poster.nil <=> stored.err # <<>>

\* C16 witness: a getPoster call that took the read lock after a first
\* resolution returned while a second, different resolution is complete.
C16_Witness ==
    /\ getter.pc = "idle"
    /\ getter.ret.done
    /\ getter.from = 2
    /\ Len(resolutions) = 3
    /\ resolutions[2] # resolutions[3]
    /\ getter.ret = PosterView(resolutions[2])

\* the four scheme-A fields are non-blank, the scheme-B access token is
\* non-blank
SchemeAComplete(x) == SchemeASet(x) = 1..4
SchemeBComplete(x) == ~Blank(x.OAuth2AccessToken)

CallStrategies == [i \in 1..Len(calls) |-> calls[i].strategy]
AttemptStrategies == [i \in 1..Len(attempts) |-> attempts[i].strategy]

\* C18: the legacy v1 upload is called only by a client in oauth1 mode and
\* only after simple:media, simple:media_data and the chunked upload were
\* tried and failed, in that order; a client in oauth2_user_token mode
\* never calls it, and the error it returns when every strategy failed
\* aggregates the three other failures only.
C18_V1OnlyInOAuth1AfterOthersFailed ==
    /\ (pc = "v1" \/ \E i \in 1..Len(calls) : calls[i].strategy = "v1") =>
         /\ poster.authMode = ModeOAuth1
         /\ ClientAuth(poster)
         /\ Len(attempts) >= 3
         /\ SubSeq(AttemptStrategies, 1, 3) =
              <<"simple:media", "simple:media_data", "chunked">>
         /\ \A i \in 1..3 : ~attempts[i].ok
         /\ Len(calls) >= 3
         /\ SubSeq(CallStrategies, 1, 3) =
              <<"simple:media", "simple:media_data", "chunked">>
    /\ \A i \in 1..Len(calls) :
         calls[i].strategy = "v1" =>
            /\ i = Len(calls)
            /\ \A j \in 1..(i - 1) : calls[j].strategy # "v1"
    /\ poster.authMode = ModeOAuth2 =>
         /\ pc # "v1"
         /\ \A i \in 1..Len(calls) : calls[i].strategy # "v1"
         /\ \A i \in 1..Len(attempts) : attempts[i].strategy # "v1"
         /\ (upRet.done /\ ~upRet.ok) =>
              /\ AttemptStrategies = <<"simple:media", "simple:media_data", "chunked">>
              /\ Len(errs) = 3
              /\ \A i \in 1..3 : errs[i] = attempts[i].reason
              /\ upRet.msg = UploadError(errs)

\* C18 witness: an oauth1 client has called the legacy upload after the
\* two simple uploads and the chunked upload failed.
C18_Witness ==
    /\ poster.authMode = ModeOAuth1
    /\ Len(calls) >= 4
    /\ calls[Len(calls)].strategy = "v1"
    /\ Len(attempts) = 4
    /\ attempts[3].strategy = "chunked"
    /\ ~attempts[3].ok

\* C19: a reference UploadMedia returned without error, by a simple
\* upload, the chunked upload or the legacy upload, has a non-empty id or
\* a non-empty media key; the handler never collects a reference with both
\* empty.
C19_SuccessHasIdentifier ==
    /\ (upRet.done /\ upRet.ok) =>
         (upRet.ref.ID # <<>> \/ upRet.ref.MediaKey # <<>>)
    /\ \A i \in 1..Len(attempts) :
         attempts[i].ok =>
            /\ attempts[i].ref.ID # <<>> \/ attempts[i].ref.MediaKey # <<>>
            /\ attempts[i].strategy \in {"chunked", "v1"} => attempts[i].ref.ID # <<>>
    /\ \A i \in 1..Len(uploads) :
         uploads[i].ok => (uploads[i].ref.ID # <<>> \/ uploads[i].ref.MediaKey # <<>>)
    /\ \A i \in 1..Len(uploaded) :
         uploaded[i].ID # <<>> \/ uploaded[i].MediaKey # <<>>

\* C19 witness: a simple upload whose response carried a media key and no
\* id was returned as a success.
C19_Witness ==
    /\ upRet.done
    /\ upRet.ok
    /\ upRet.ref.ID = <<>>
    /\ upRet.ref.MediaKey # <<>>
    /\ attempts[Len(attempts)].strategy \in {"simple:media", "simple:media_data"}

\* the calls of the chunked upload among the calls of the UploadMedia call
ChunkedCalls == SelectSeq(calls, LAMBDA c : c.strategy = "chunked")
ChunkedOps == [i \in 1..Len(ChunkedCalls) |-> <<ChunkedCalls[i].op, ChunkedCalls[i].field>>]

\* the orders in which a chunked upload can have called its phases
ChunkedOrders ==
    LET init == <<"Media.InitializeUpload", "">>
        app1 == <<"Media.AppendUpload", "media">>
        app2 == <<"Media.AppendUpload", "media_data">>
        final == <<"Media.FinalizeUpload", "">>
    IN {<<>>, <<init>>, <<init, app1>>, <<init, app1, final>>,
        <<init, app1, app2>>, <<init, app1, app2, final>>}

LastCall(cs) == cs[Len(cs)]

\* a step that calls the upstream for the chunked upload
ChunkedCallStep(op, field) ==
    /\ Len(calls') = Len(calls) + 1
    /\ LastCall(calls').strategy = "chunked"
    /\ LastCall(calls').op = op
    /\ LastCall(calls').field = field

\* the chunked attempt ended with the error reason, and nothing of it runs
\* any more
ChunkedEndedWith(reason) ==
    /\ pc' \in {"v1", "done"}
    /\ Len(attempts') = Len(attempts) + 1
    /\ LastCall(attempts') = Attempt("chunked", FALSE, EmptyRef, reason)
    /\ LastCall(errs') = reason

\* what a step of the chunked upload may do, given the calls made so far
ChunkedStepInOrder ==
    /\ ChunkedCallStep("Media.InitializeUpload", "") =>
         /\ ChunkedCalls = <<>>
         /\ \/ pc' = "chunk_append" /\ initRef'.ID # <<>>
            \/ ChunkedEndedWith(NoInitID)
            \/ \E r \in Reasons \cup {CtxErr} : ChunkedEndedWith(r)
    /\ ChunkedCallStep("Media.AppendUpload", "media") =>
         /\ LastCall(calls).op = "Media.InitializeUpload"
         /\ initRef.ID # <<>>
         /\ initRef' = initRef
         /\ \/ pc' = "chunk_final" /\ appendErr' = ""
            \/ pc' = "chunk_append" /\ appendErr' # ""
    /\ ChunkedCallStep("Media.AppendUpload", "media_data") =>
         /\ LastCall(calls).op = "Media.AppendUpload"
         /\ LastCall(calls).field = "media"
         /\ appendErr # ""
         /\ \/ pc' = "chunk_final" /\ appendErr' = ""
            \/ appendErr' # "" /\ ChunkedEndedWith(appendErr')
    /\ ChunkedCallStep("Media.FinalizeUpload", "") =>
         /\ LastCall(calls).op = "Media.AppendUpload"
         /\ appendErr = ""
         /\ \/ upRet'.done /\ upRet'.ok /\ upRet'.ref.ID # <<>>
            \/ \E r \in Reasons \cup {CtxErr} : ChunkedEndedWith(r)
    /\ pc \in {"chunk_init", "chunk_append", "chunk_final"} =>
         (pc' = pc \/ ChunkedCallStep(calls'[Len(calls')].op,
                                      calls'[Len(calls')].field))

\* C20: the calls of a chunked upload come in the order initialize,
\* append under "media", append under "media_data", finalize, each at most
\* once and initialize exactly once. Append is called only after
\* initialize gave a non-empty media id; the second append only after the
\* first failed; finalize only after an append succeeded; and when
\* initialize fails or gives no id, when the second append fails or when
\* finalize fails, the chunked attempt ends with that error without any
\* further chunked call.
C20_ChunkedPhaseOrder ==
    /\ [](ChunkedOps \in ChunkedOrders)
    /\ [][ChunkedStepInOrder]_vars

\* C20 witness: the append under "media" failed, the append under
\* "media_data" succeeded, and finalize was called.
C20_Witness ==
    /\ Len(ChunkedOps) = 4
    /\ ChunkedOps[3] = <<"Media.AppendUpload", "media_data">>
    /\ ChunkedOps[4] = <<"Media.FinalizeUpload", "">>
    /\ upRet.done
    /\ upRet.ok

\* ---- applyOAuth2TokenToConfig and persistOAuth2TokenIfAvailable on their own

\* a configuration with every OAuth2 field stored
FullOAuth2Cfg ==
    [OAuth2RefreshCfg EXCEPT !.OAuth2ClientSecret = <<"s">>,
                             !.OAuth2RedirectURI = <<"u">>,
                             !.OAuth2Scope = << <<"s">> >>,
                             !.OAuth2TokenType = <<"t", "y">>]

ApplyCfgs == {OAuth1Cfg, OAuth2RefreshCfg, FullOAuth2Cfg}

\* token maps: each entry absent, blank, or set
ApplyTokens ==
    {OAuth2Token(access, refresh, type, scope, expiresAt, expiresIn) :
        access \in {JNull, JStr(<<" ">>), JStr(<<" ", "n", " ">>)},
        refresh \in {JNull, JStr(<<"r", "2">>)},
        type \in {JNull, JStr(<<"b">>)},
        scope \in {JNull, JStr(<<"a", " ", "b">>)},
        expiresAt \in {JNull, JNum(0), JNum(7), JStr(<<"x">>)},
        expiresIn \in {JNull, JNum(0), JNum(10)}}

\* a call of applyOAuth2TokenToConfig, or of persistOAuth2TokenIfAvailable
\* with the client of a poster
ApplyCall(fn, x, p, token, now) ==
    [fn |-> fn, x |-> x, poster |-> p, token |-> token, now |-> now]

\* the token persistOAuth2TokenIfAvailable reads from the client: none
\* when the client has no OAuth2Auth
TokenOf(p, token) == IF p.client.ClientID # <<>> THEN token ELSE EmptyToken

InitApply ==
    /\ \E x \in ApplyCfgs, token \in ApplyTokens, now \in Clock,
          fn \in {"apply", "persist"} :
         /\ fnArg = ApplyCall(fn, x, newPoster(x).poster,
                              IF fn = "apply" THEN token
                              ELSE TokenOf(newPoster(x).poster, token), now)
         /\ appCfg = Config(defaultServerAddr, <<"t">>, x)
    /\ fnRet = NoCall
    /\ files = [path |-> 1, tmp |-> 0]
    /\ inodes = <<Marshal(appCfg)>>
    /\ writers = [w \in Writers |-> Writer("done", NilConfig, 0, "")]
    /\ lastRead = NoRead
    /\ renames = <<>>
    /\ loaded = Loaded(NilConfig, FALSE, "", FALSE)
    /\ env = NoEnv
    /\ bootPc = "serve"
    /\ loads = <<>>
    /\ IdlePipe
    /\ IdleResolve
    /\ IdleAuth
    /\ IdleLock
    /\ IdleVercel

\* applyOAuth2TokenToConfig(&cfg.X, token)
ApplyToken ==
    /\ fnArg.fn = "apply"
    /\ fnRet = NoCall
    /\ fnRet' = [fn |-> "apply",
                 ok |-> applyOAuth2TokenToConfig(fnArg.x, fnArg.token, fnArg.now).ok,
                 x |-> applyOAuth2TokenToConfig(fnArg.x, fnArg.token, fnArg.now).x]
    /\ UNCHANGED <<fnArg, pipeVars, resolveVars, fileVars, bootVars, authVars,
                   lockVars, vercelVars>>

\* persistOAuth2TokenIfAvailable(cfg, configPath, client)
PersistToken ==
    /\ fnArg.fn = "persist"
    /\ fnRet = NoCall
    /\ \E ok \in BOOLEAN :
         /\ PersistStep(fnArg.token, fnArg.now, ok)
         /\ fnRet' = [fn |-> "persist",
                      outcome |-> PersistOutcome(appCfg, fnArg.token, fnArg.now, ok)]
    /\ UNCHANGED <<fnArg, env, bootPc, loads, writers, lastRead, renames, loaded,
                   pipeVars, resolveVars, authVars, lockVars, vercelVars>>

NextApply ==
    \/ ApplyToken
    \/ PersistToken

SpecApply == InitApply /\ [][NextApply]_vars

\* the token's access_token is missing or blank
NoAccessToken(token) == TrimSpace(stringify(token.access_token)) = <<>>

\* the configuration and the file of the call are those it started with
ConfigUntouched ==
    /\ appCfg = Config(defaultServerAddr, <<"t">>, fnArg.x)
    /\ files = [path |-> 1, tmp |-> 0]
    /\ inodes = <<Marshal(appCfg)>>

\* C21: with a missing or blank access_token applyOAuth2TokenToConfig
\* returns an error, exactly then, and leaves every credential field as it
\* was; persistOAuth2TokenIfAvailable then saves nothing and leaves the
\* configuration in memory and the file as they were; and it applies and
\* saves a token only for a client in oauth2_user_token mode that holds a
\* non-empty token.
C21_BlankAccessTokenChangesNothing ==
    /\ fnRet.fn = "apply" =>
         /\ fnRet.ok <=> ~NoAccessToken(fnArg.token)
         /\ ~fnRet.ok => fnRet.x = fnArg.x
    /\ fnRet.fn = "persist" =>
         /\ NoAccessToken(fnArg.token) =>
              /\ fnRet.outcome \in {"skipped", "extract_failed"}
              /\ ConfigUntouched
         /\ fnRet.outcome \in {"saved", "save_failed"} =>
              /\ fnArg.poster.authMode = ModeOAuth2
              /\ fnArg.token # EmptyToken
              /\ ~NoAccessToken(fnArg.token)
         /\ (fnArg.poster.authMode # ModeOAuth2 \/ fnArg.token = EmptyToken) =>
              /\ fnRet.outcome = "skipped"
              /\ ConfigUntouched

\* C21 witness: an oauth2 client holds a token whose access_token is
\* blank and whose refresh_token is set; nothing was applied or saved.
C21_Witness ==
    /\ fnRet.fn = "persist"
    /\ fnRet.outcome = "extract_failed"
    /\ fnArg.token.access_token = JStr(<<" ">>)
    /\ fnArg.token.refresh_token # JNull
    /\ fnArg.poster.authMode = ModeOAuth2

\* C22: after applyOAuth2TokenToConfig succeeded, the stored expiry is the
\* token's expires_at when the token carries one; else now + expires_in
\* when expires_in is present and positive; else the expiry stored before.
C22_ExpiryResolution ==
    (fnRet.fn = "apply" /\ fnRet.ok) =>
      LET at == toInt64(fnArg.token.expires_at)
          in == toInt64(fnArg.token.expires_in)
      IN fnRet.x.OAuth2ExpiresAt =
           IF at.ok THEN at.n
           ELSE IF in.ok /\ in.n > 0 THEN fnArg.now + in.n
           ELSE fnArg.x.OAuth2ExpiresAt

\* the token has no value for the entry
Absent(v) == TrimSpace(stringify(v)) = <<>>

\* what applying the token may change between the credentials before and
\* after: only the OAuth2 token fields, and none whose entry is absent
TokenFrame(before, after, token) ==
    /\ (Absent(token.refresh_token) /\ before.OAuth2RefreshToken # <<>>) =>
         after.OAuth2RefreshToken = before.OAuth2RefreshToken
    /\ (Absent(token.token_type) /\ before.OAuth2TokenType # <<>>) =>
         after.OAuth2TokenType = before.OAuth2TokenType
    /\ Absent(token.scope) => after.OAuth2Scope = before.OAuth2Scope
    /\ (token.expires_at = JNull /\ token.expires_in = JNull) =>
         after.OAuth2ExpiresAt = before.OAuth2ExpiresAt
    /\ after.APIKey = before.APIKey
    /\ after.APISecret = before.APISecret
    /\ after.AccessToken = before.AccessToken
    /\ after.AccessTokenSecret = before.AccessTokenSecret
    /\ after.OAuth2ClientID = before.OAuth2ClientID
    /\ after.OAuth2ClientSecret = before.OAuth2ClientSecret
    /\ after.OAuth2RedirectURI = before.OAuth2RedirectURI

\* C28: applying a token that carries an access_token leaves the stored
\* refresh_token (token_type) as it was when the token has none, as it
\* does the scope and the expiry, and changes no scheme-A field, no client
\* id, secret or redirect URI; persisting it changes no server or security
\* field, in memory or in the file.
C28_TokenPersistenceFrame ==
    /\ (fnRet.fn = "apply" /\ fnRet.ok) => TokenFrame(fnArg.x, fnRet.x, fnArg.token)
    /\ fnRet.fn = "persist" =>
         /\ TokenFrame(fnArg.x, appCfg.X, fnArg.token)
         /\ TokenFrame(fnArg.x, FileCfg.X, fnArg.token)
         /\ appCfg.Addr = defaultServerAddr
         /\ appCfg.APIToken = <<"t">>
         /\ FileCfg.Addr = defaultServerAddr
         /\ FileCfg.APIToken = <<"t">>

\* ---- the local server from its start: RunLocal, then requests

\* the environments of a server start
ServeEnvs ==
    {e \in Envs : e.command = "serve"}
    \cup {[NoEnv EXCEPT !.command = "serve", !.API_KEY = <<"k">>,
                        !.OAUTH2_ACCESS_TOKEN = <<"b">>]}

InitServe ==
    /\ \/ files = [path |-> 0, tmp |-> 0] /\ inodes = <<>>
       \/ files = [path |-> 1, tmp |-> 0] /\ \E c \in BootFiles : inodes = <<c>>
    /\ writers = [w \in Writers |-> Writer("done", NilConfig, 0, "")]
    /\ lastRead = NoRead
    /\ renames = <<>>
    /\ loaded = Loaded(NilConfig, FALSE, "", FALSE)
    /\ appCfg = NilConfig
    /\ env \in ServeEnvs
    /\ bootPc = "load"
    /\ loads = <<>>
    /\ IdlePipe
    /\ IdleResolve
    /\ IdleAuth
    /\ IdleLock
    /\ IdleFn
    /\ IdleVercel

\* refreshPoster has run
Refreshed == Len(resolutions) > 1

\* a RunLocal that resolves the client from the configuration as loaded,
\* before the environment overrides
ServeRefreshBeforeOverride ==
    /\ bootPc = "serve"
    /\ ~Refreshed
    /\ stored' = Stored(newPoster(LastLoad.ret.cfg.X).poster,
                        newPoster(LastLoad.ret.cfg.X).err)
    /\ resolutions' = Append(resolutions, stored')
    /\ UNCHANGED <<mu, refresher, getter, pipeVars, resolveVars, fileVars, bootVars,
                   authVars, fnVars, vercelVars>>

\* RunLocal: app.refreshPoster(), once, before the router runs
ServeRefresh ==
    /\ bootPc = "serve"
    /\ ~Refreshed
    /\ stored' = Stored(newPoster(appCfg.X).poster, newPoster(appCfg.X).err)
    /\ resolutions' = Append(resolutions, stored')
    /\ UNCHANGED <<mu, refresher, getter, pipeVars, resolveVars, fileVars, bootVars,
                   authVars, fnVars, vercelVars>>

\* a request of the running server whose post succeeded, with the stored
\* poster: a.persistOAuth2Token(poster) changes a.cfg and the file
ServeRequest ==
    /\ bootPc = "serve"
    /\ Refreshed
    /\ ~stored.poster.nil
    /\ \E token \in HeldTokens(stored.poster), now \in Clock, ok \in BOOLEAN :
         PersistStep(token, now, ok)
    /\ UNCHANGED <<env, bootPc, loads, writers, lastRead, renames, loaded,
                   pipeVars, resolveVars, authVars, lockVars, fnVars, vercelVars>>

NextServe ==
    \/ BootLoad
    \/ BootOverride
    \/ FirstBootSave
    \/ ServeRefresh
    \/ ServeRequest

SpecServe == InitServe /\ [][NextServe]_vars

C27_FirstBootCheckImpliesReady ==
    /\ (bootPc = "firstboot" /\ ensureFirstBootAuthConfigured(appCfg.X) = "") =>
         ~newPoster(appCfg.X).poster.nil
    /\ (bootPc = "serve" /\ LastLoad.ret.firstBoot /\ Refreshed) =>
         /\ ~stored.poster.nil
         /\ stored.err = <<>>
         /\ PosterView(stored) = Resolved(stored.poster, <<>>)

\* ---- extractMediaRef on its own

LocalKeys == {"id", "ID", "media_id", "media_id_string", "media_key"}

\* the values of a generated map: two strings, a blank one
LeafValues == {JStr(<<"7">>), JStr(<<"9">>), JStr(<<" ">>)}

\* the key lists of the generated maps: the order the keys were written in
KeySeqs ==
    {ks \in UNION {[1..n -> LocalKeys] : n \in 1..MaxKeys} :
        \A i, j \in 1..Len(ks) : i # j => ks[i] # ks[j]}

\* maps of strings, one level
FlatMaps == UNION {{JMap(ks, m) : m \in [SeqRange(ks) -> LeafValues]} : ks \in KeySeqs}

\* maps with one key and a non-blank value
SingleMaps == {f \in FlatMaps : Len(f.keys) = 1 /\ f.m[f.keys[1]] # JStr(<<" ">>)}

\* payloads with nested values: a map under "data", next to a local id or
\* not, two sibling maps, an array of maps
NestedPayloads ==
    {JMap(<<"data">>, [data |-> f]) : f \in SingleMaps}
    \cup {JMap(<<"id", "data">>, [id |-> v, data |-> f]) :
            v \in LeafValues, f \in SingleMaps}
    \cup {JMap(<<"data", "includes">>, [data |-> f, includes |-> g]) :
            f \in SingleMaps, g \in {h \in SingleMaps : h.m[h.keys[1]] = JStr(<<"9">>)}}
    \cup {JArr(<<f, g>>) :
            f \in SingleMaps, g \in {h \in SingleMaps : h.m[h.keys[1]] = JStr(<<"9">>)}}
    \cup {Payloads[i] : i \in 1..Len(Payloads)}
    \cup {JStr(<<"7">>), JNull}

ExtractPayloads == FlatMaps \cup NestedPayloads

\* the evaluations of extractMediaRef on the payload so far
Extracted(refs) == [fn |-> "extractMediaRef", refs |-> refs]

InitExtract ==
    /\ \E payload \in ExtractPayloads :
         fnArg = [fn |-> "extractMediaRef", payload |-> payload]
    /\ fnRet = Extracted(<<>>)
    /\ IdlePipe
    /\ IdleResolve
    /\ IdleFiles
    /\ IdleBoot
    /\ IdleAuth
    /\ IdleLock
    /\ IdleVercel

\* extractMediaRef(payload), a first and a second time
Extract ==
    /\ Len(fnRet.refs) < 2
    /\ \E ref \in extractMediaRef(fnArg.payload) :
         fnRet' = Extracted(Append(fnRet.refs, ref))
    /\ UNCHANGED <<fnArg, pipeVars, resolveVars, fileVars, bootVars, authVars,
                   lockVars, vercelVars>>

NextExtract == Extract

SpecExtract == InitExtract /\ [][NextExtract]_vars

\* the keys of the map that fold to the name and have a non-empty value
KeysFor(v, name) ==
    {k \in SeqRange(v.keys) : EqualFold(k, name) /\ stringify(v.m[k]) # <<>>}

\* the id names with such a key in the map, by priority
NamesPresent(v) == {i \in 1..Len(IdKeys) : KeysFor(v, IdKeys[i]) # {}}

TopName(v) == CHOOSE i \in NamesPresent(v) : \A j \in NamesPresent(v) : i <= j

\* C24: for a map with non-empty values under several of the id names at
\* one level, the id returned is the value of a key with the
\* highest-priority name present (media_id_string before media_id before
\* id, letter case ignored), whatever the order of the keys: the value of
\* that key when there is one such key; {"id":"9","media_id_string":"7"}
\* gives "7", in both key orders.
C24_PriorityAtOneLevel ==
    \A n \in 1..Len(fnRet.refs) :
       LET v == fnArg.payload
           ref == fnRet.refs[n]
       IN /\ (v.t = "map" /\ NamesPresent(v) # {}) =>
               /\ ref.ID \in {stringify(v.m[k]) : k \in KeysFor(v, IdKeys[TopName(v)])}
               /\ ref.ID # <<>>
          /\ (v.t = "map" /\ SeqRange(v.keys) = {"id", "media_id_string"}
                /\ v.m["id"] = JStr(<<"9">>) /\ v.m["media_id_string"] = JStr(<<"7">>)) =>
               ref.ID = <<"7">>

\* C24 witness: {"id":"9","media_id_string":"7"}, the lower-priority key
\* written first, evaluated.
C24_Witness ==
    /\ fnArg.payload = JMap(<<"id", "media_id_string">>,
                            [id |-> JStr(<<"9">>), media_id_string |-> JStr(<<"7">>)])
    /\ Len(fnRet.refs) >= 1
    /\ fnRet.refs[1].ID = <<"7">>

\* the strings a search for the names may find in the nested values of a map
NestedFinds(v, keys) ==
    UNION {findFirstByPriority(v.m[k], keys) \ {<<>>} : k \in SeqRange(v.keys)}

\* C25: the search is local first. A non-empty value under an id name at
\* the current level is returned before any nested match, also one under
\* a higher-priority name; the nested values are searched only when the
\* current level gives nothing, and then the id is one found in them (none
\* if there is none); the media key is searched the same way, whatever the
\* id search found. {"data":{"media_id_string":"9","media_key":"3_9"}}
\* gives id "9" and key "3_9".
C25_LocalFirst ==
    \A n \in 1..Len(fnRet.refs) :
       LET v == fnArg.payload
           ref == fnRet.refs[n]
       IN /\ v.t = "map" =>
               /\ NamesPresent(v) # {} =>
                    ref.ID \in {stringify(v.m[k]) : k \in SeqRange(v.keys)}
               /\ NamesPresent(v) = {} =>
                    IF NestedFinds(v, IdKeys) = {} THEN ref.ID = <<>>
                    ELSE ref.ID \in NestedFinds(v, IdKeys)
               /\ KeysFor(v, "media_key") # {} =>
                    ref.MediaKey \in {stringify(v.m[k]) : k \in KeysFor(v, "media_key")}
               /\ KeysFor(v, "media_key") = {} =>
                    IF NestedFinds(v, KeyKeys) = {} THEN ref.MediaKey = <<>>
                    ELSE ref.MediaKey \in NestedFinds(v, KeyKeys)
          /\ v = Payloads[3] => ref = MediaRef(<<"9">>, <<"3", "_", "9">>)
          /\ v = JMap(<<"id", "data">>,
                      [id |-> JStr(<<"7">>),
                       data |-> JMap(<<"media_id_string">>,
                                     [media_id_string |-> JStr(<<"9">>)])]) =>
               ref.ID = <<"7">>

\* C25 witness: an id at the top level next to a nested map with a
\* media_id_string; the local id was returned.
C25_Witness ==
    /\ fnArg.payload = JMap(<<"id", "data">>,
                            [id |-> JStr(<<"7">>),
                             data |-> JMap(<<"media_id_string">>,
                                           [media_id_string |-> JStr(<<"9">>)])])
    /\ Len(fnRet.refs) >= 1
    /\ fnRet.refs[1].ID = <<"7">>

\* C29: two evaluations of extractMediaRef on one payload return the same
\* reference.
C29_ExtractDeterministic ==
    Len(fnRet.refs) = 2 => fnRet.refs[1] = fnRet.refs[2]

\* the submission the upstream accepted
AcceptedPost == posts[Len(posts)]

\* the submission carries the reference: its id under media_ids, or its
\* media key under media_keys
Attached(body, ref) ==
    \/ /\ body.mediaField = "media_ids"
       /\ TrimSpace(ref.ID) # <<>>
       /\ TrimSpace(ref.ID) \in SeqRange(body.list)
    \/ /\ body.mediaField = "media_keys"
       /\ TrimSpace(ref.MediaKey) # <<>>
       /\ TrimSpace(ref.MediaKey) \in SeqRange(body.list)

\* C26: when a request with uploaded media ends successfully, the
\* submission the upstream accepted carried a media attachment that
\* references every upload, those with a media key and no id included.
C26_AcceptedPostCarriesMedia ==
    (pc = "done" /\ tweetRet.done /\ tweetRet.ok /\ uploaded # <<>>) =>
       /\ posts # <<>>
       /\ AcceptedPost.ok
       /\ AcceptedPost.body.mediaField # "none"
       /\ \A i \in 1..Len(uploaded) : Attached(AcceptedPost.body, uploaded[i])

\* ---------------------------------------------------------------------
\* The serverless entrypoint: Handler, sync.Once and NewVercelHandler
\* ---------------------------------------------------------------------

VercelTokenMsg == "XPOST_API_TOKEN is required in Vercel environment"

\* the configuration NewVercelHandler builds: the default address and the
\* environment, never a file
VercelConfig(e) == overrideConfigFromEnv(Config(defaultServerAddr, <<>>, ZeroAuth), e)

\* NewVercelHandler: the error it returns (<<>> for nil), the App it builds
\* and whether it returns a router
NewVercelHandler(e) ==
    LET c == VercelConfig(e)
        err == IF Blank(c.APIToken) THEN <<VercelTokenMsg>>
               ELSE IF ensureFirstBootAuthConfigured(c.X) # ""
                    THEN <<ensureFirstBootAuthConfigured(c.X)>>
                    ELSE newPoster(c.X).err
    IN  [handler |-> err = <<>>, err |-> err, cfg |-> c,
         persistCfg |-> FALSE, configPath |-> <<>>,
         stored |-> Stored(newPoster(c.X).poster, newPoster(c.X).err)]

\* a once.Do that lets a caller through while another caller's function
\* is still running
DoNoWait(state) ==
    CASE state = "new" -> "run"
      [] state = "running" -> "pass"
      [] state = "done" -> "pass"

\* sync.Once.Do for a caller that finds the Once in the given state: the
\* first caller runs the function, a caller arriving while it runs waits
\* for it, a caller arriving after it returns at once
Do(state) ==
    CASE state = "new" -> "run"
      [] state = "running" -> "wait"
      [] state = "done" -> "pass"

Req(p, code) == [pc |-> p, status |-> code]

\* the answers of the router to a request it serves
ServedCodes == {200, 400, 401, 502}

VercelEnvs ==
    {NoEnv,
     [NoEnv EXCEPT !.API_TOKEN = <<"e">>],
     [NoEnv EXCEPT !.API_TOKEN = <<"e">>, !.API_KEY = <<"k">>,
                   !.OAUTH2_ACCESS_TOKEN = <<"b">>],
     [NoEnv EXCEPT !.API_TOKEN = <<"e">>, !.API_KEY = <<"k">>, !.API_SECRET = <<"s">>,
                   !.ACCESS_TOKEN = <<"t">>, !.ACCESS_TOKEN_SECRET = <<"u">>],
     [NoEnv EXCEPT !.API_TOKEN = <<"e">>, !.OAUTH2_ACCESS_TOKEN = <<"b">>,
                   !.OAUTH2_CLIENT_ID = <<"c">>, !.OAUTH2_REFRESH_TOKEN = <<"r">>]}

InitVercel ==
    /\ \/ files = [path |-> 0, tmp |-> 0] /\ inodes = <<>>
       \/ files = [path |-> 1, tmp |-> 0] /\ \E c \in BootFiles : inodes = <<c>>
    /\ writers = [w \in Writers |-> Writer("done", NilConfig, 0, "")]
    /\ lastRead = NoRead
    /\ renames = <<>>
    /\ loaded = Loaded(NilConfig, FALSE, "", FALSE)
    /\ appCfg = NilConfig
    /\ env \in VercelEnvs
    /\ bootPc = "off"
    /\ loads = <<>>
    /\ IdlePipe
    /\ IdleResolve
    /\ IdleAuth
    /\ IdleLock
    /\ IdleFn
    /\ once = "new"
    /\ handle = NoHandle
    /\ reqs = [r \in 1..MaxRequests |-> Req("new", 0)]
    /\ inits = 0

\* Handler: the request reaches once.Do
VercelEnter(r) ==
    /\ reqs[r].pc = "new"
    /\ Do(once) # "wait"
    /\ IF Do(once) = "run"
       THEN /\ once' = "running"
            /\ reqs' = [reqs EXCEPT ![r] = Req("init", 0)]
       ELSE /\ once' = once
            /\ reqs' = [reqs EXCEPT ![r] = Req("check", 0)]
    /\ UNCHANGED <<handle, inits, pipeVars, resolveVars, fileVars, bootVars,
                   authVars, lockVars, fnVars>>

\* the function passed to once.Do: httpHandle, initErr = NewVercelHandler()
VercelInit(r) ==
    /\ reqs[r].pc = "init"
    /\ inits' = inits + 1
    /\ LET ret == NewVercelHandler(env)
       IN  /\ handle' = [set |-> ret.handler, err |-> ret.err,
                         persistCfg |-> ret.persistCfg, configPath |-> ret.configPath]
           /\ IF ret.handler
              THEN /\ appCfg' = ret.cfg
                   /\ stored' = ret.stored
                   /\ resolutions' = Append(resolutions, ret.stored)
              ELSE UNCHANGED <<appCfg, stored, resolutions>>
    /\ once' = "done"
    /\ reqs' = [reqs EXCEPT ![r] = Req("check", 0)]
    /\ UNCHANGED <<mu, refresher, getter, env, bootPc, loads, pipeVars, resolveVars,
                   fileVars, authVars, fnVars>>

\* Handler after once.Do: 500 when initErr is set, else the stored handler,
\* which is a nil interface when no initialization has assigned it
VercelCheck(r) ==
    /\ reqs[r].pc = "check"
    /\ reqs' = [reqs EXCEPT ![r] =
                  IF handle.err # <<>> THEN Req("done", 500)
                  ELSE IF ~handle.set THEN Req("panicked", 0)
                  ELSE Req("serve", 0)]
    /\ UNCHANGED <<once, handle, inits, pipeVars, resolveVars, fileVars, bootVars,
                   authVars, lockVars, fnVars>>

\* httpHandle.ServeHTTP: the router answers; after a successful post
\* a.persistOAuth2Token runs, which returns at once unless the App persists
VercelServe(r) ==
    /\ reqs[r].pc = "serve"
    /\ \E code \in ServedCodes :
         /\ reqs' = [reqs EXCEPT ![r] = Req("done", code)]
         /\ IF code = 200 /\ handle.persistCfg /\ ~Blank(handle.configPath)
            THEN \E token \in HeldTokens(stored.poster), now \in Clock, ok \in BOOLEAN :
                   PersistStep(token, now, ok)
            ELSE UNCHANGED <<appCfg, files, inodes>>
    /\ UNCHANGED <<once, handle, inits, env, bootPc, loads, writers, lastRead,
                   renames, loaded, pipeVars, resolveVars, authVars, lockVars, fnVars>>

NextVercel ==
    \E r \in 1..MaxRequests :
       \/ VercelEnter(r)
       \/ VercelInit(r)
       \/ VercelCheck(r)
       \/ VercelServe(r)

SpecVercel == InitVercel /\ [][NextVercel]_vars

\* the request is past once.Do
PastDo(r) == reqs[r].pc \in {"check", "serve", "done", "panicked"}

\* C30: in the serverless entrypoint NewVercelHandler runs at most once per
\* process however the first requests interleave; no request gets past
\* once.Do, let alone is served, before that run has finished; when it
\* failed every request is answered 500, none is served and there is no
\* second run; and the config file is never written.
C30_InitOnceThenServe ==
    /\ inits <= 1
    /\ \A r \in 1..MaxRequests :
         /\ PastDo(r) => once = "done" /\ inits = 1
         /\ reqs[r].pc # "panicked"
         /\ reqs[r].pc = "serve" => handle.set /\ handle.err = <<>>
         /\ handle.err # <<>> =>
              /\ reqs[r].pc # "serve"
              /\ reqs[r].pc = "done" => reqs[r].status = 500
         /\ reqs[r].pc = "done" /\ reqs[r].status # 500 => handle.set
    /\ once = "done" => handle.err = NewVercelHandler(env).err
    /\ files \in {[path |-> 0, tmp |-> 0], [path |-> 1, tmp |-> 0]}
    /\ Len(inodes) = files.path
    /\ renames = <<>>

\* both requests raced for the first run and are finished: one ran the
\* initialization, and either both were served or both were refused
C30_Witness ==
    /\ inits = 1
    /\ \A r \in 1..MaxRequests : reqs[r].pc = "done"
    /\ \/ handle.err # <<>> /\ \A r \in 1..MaxRequests : reqs[r].status = 500
       \/ handle.set /\ \E r \in 1..MaxRequests : reqs[r].status = 200

====
